---------------------------- MODULE Spec2Model ----------------------------
(***************************************************************************)
(* A model of generate_map.py: the numeric normalizer (to_num_series and   *)
(* its parse_one) and the marker scaler factory (make_scaler and the scale *)
(* closure it returns).                                                    *)
(*                                                                         *)
(* Text is a sequence of one-character strings.  The characters that have  *)
(* no ASCII spelling are named: "nbsp" (U+00A0), "endash" (U+2013),        *)
(* "emdash" (U+2014), "minus" (U+2212), "agrave" (U+00E0), "tab", "nl".    *)
(*                                                                         *)
(* A Python float is a record [k, n, d]: k = "fin" with the value n/d in   *)
(* lowest terms (d > 0), k = "inf" with n the sign, or k = "nan".          *)
(* Arithmetic on finite values is exact (rational): binary64 rounding is   *)
(* not modelled.                                                           *)
(***************************************************************************)
EXTENDS Integers, Sequences, FiniteSets, TLC

VARIABLES
  series,   \* to_num_series: the column s, a sequence of raw cells
  out,      \* to_num_series: parse_one's results for the cells applied so far
  npc,      \* to_num_series: "idle" | "apply" | "done" | "raised"
  values,   \* make_scaler: the reference collection
  r_min,    \* make_scaler: lower end of the radius range
  r_max,    \* make_scaler: upper end of the radius range
  scaler,   \* the closure make_scaler returned (NoScaler before the call)
  v,        \* the argument of the last call of the scaler
  y,        \* the value the last call of the scaler returned
  first,    \* history: one earlier call of the scaler, argument and result
  csv,      \* main: the rows of the CSV file
  columns,  \* main: the columns the CSV file has
  size_by,  \* main: --size-by
  df,       \* main: the data frame
  scalers,  \* main: cap_scaler, co2_scaler and kt_scaler
  site_data,\* main: the site records
  mpc,      \* main: how far the run is
  aux,      \* main: the auxiliary files (greenhouses, grid nodes and edges, gas)
  grid_nodes,    \* main: the electricity grid nodes loaded
  grid_edges,    \* main: the electricity grid edges loaded
  gas_pipelines, \* main: the gas pipeline segments loaded
  html,     \* main: the output file, what build_html was given (NoFile before)
  points,   \* compute_opportunity_points: supply, offtake and competitors points
  opportunity_points, \* compute_opportunity_points: the list returned
  opc,      \* compute_opportunity_points: "idle" | "call" | "done"
  SITES,    \* page: the site records build_html embedded
  visibility_mode,      \* page: --visibility-mode, as embedded by build_html
  checked,  \* page: the techno and status checkboxes that are checked
  markersLayer,         \* page: the markers on the map
  visible_count,        \* page: the text of the visible-site counter
  searchActive,         \* page: an operator search is shown
  matchingMarkers,      \* page: the markers the search matched
  zoomMode,             \* page: zoomed in on a site
  currentFocusSite,     \* page: the site zoomed in on (NoSite when none)
  isochroneEnabled,     \* page: the isochrone toggle is on
  isochroneLayers,      \* page: the isochrone layers on the map
  savedFilteredMarkers, \* page: the markers enterZoomMode saved
  pending,  \* page: the isochrone fetches in flight, the site of each
  shownBefore \* history: the markers shown when isochrones were turned on,
            \* and whether zoom mode has seen clicks and toggles only

vars ==
  <<series, out, npc, values, r_min, r_max, scaler, v, y, first,
    csv, columns, size_by, df, scalers, site_data, mpc,
    aux, grid_nodes, grid_edges, gas_pipelines, html,
    points, opportunity_points, opc,
    SITES, visibility_mode, checked, markersLayer, visible_count,
    searchActive, matchingMarkers, zoomMode, currentFocusSite,
    isochroneEnabled, isochroneLayers, savedFilteredMarkers, pending,
    shownBefore>>

nvars == <<series, out, npc>>
svars == <<values, r_min, r_max, scaler, v, y, first>>
mvars ==
  <<csv, columns, size_by, df, scalers, site_data, mpc,
    aux, grid_nodes, grid_edges, gas_pipelines, html>>
\* what the stages of main before the auxiliary files leave alone
avars == <<aux, grid_nodes, grid_edges, gas_pipelines, html>>
ovars == <<points, opportunity_points, opc>>
\* the page's own state
pvars ==
  <<SITES, visibility_mode, checked, markersLayer, visible_count,
    searchActive, matchingMarkers, zoomMode, currentFocusSite,
    isochroneEnabled, isochroneLayers, savedFilteredMarkers, pending,
    shownBefore>>
xvars == <<nvars, svars, ovars, pvars>>

(***************************************************************************)
(* Bounds of the model.                                                    *)
(***************************************************************************)
\* longest cell of the exhaustive family (every text over Alphabet)
MaxLen == 3
\* longest run of whitespace put around a cell
MaxPad == 2
\* longest column of example cells
MaxRows == 2
\* longest reference collection
MaxVals == 2
\* largest finite number of a reference collection
MaxNum == 2

(***************************************************************************)
(* Exact arithmetic on finite floats.                                      *)
(***************************************************************************)
Abs(n) == IF n < 0 THEN -n ELSE n

RECURSIVE Gcd(_, _)
Gcd(a, b) == IF b = 0 THEN a ELSE Gcd(b, a % b)

Fin(n, d) ==
  LET g == Gcd(Abs(n), Abs(d))
      s == IF d < 0 THEN -1 ELSE 1
  IN  [k |-> "fin", n |-> (s * n) \div g, d |-> (s * d) \div g]

NaN  == [k |-> "nan", n |-> 0, d |-> 1]
PInf == [k |-> "inf", n |-> 1, d |-> 1]
NInf == [k |-> "inf", n |-> -1, d |-> 1]

IsFin(a) == a.k = "fin"
IsNaN(a) == a.k = "nan"
IsInf(a) == a.k = "inf"

Add(a, b) == Fin(a.n * b.d + b.n * a.d, a.d * b.d)
Sub(a, b) == Fin(a.n * b.d - b.n * a.d, a.d * b.d)
Mul(a, b) == Fin(a.n * b.n, a.d * b.d)
\* b is not zero
Div(a, b) == Fin(a.n * b.d, a.d * b.n)

\* a <= b and a < b on floats that are not NaN
Le(a, b) ==
  CASE IsInf(a) -> a.n < 0 \/ (IsInf(b) /\ b.n > 0)
    [] IsInf(b) -> b.n > 0
    [] OTHER    -> a.n * b.d <= b.n * a.d
Lt(a, b) == Le(a, b) /\ a # b

\* mutant of PyMin: the upper clamp is lost
PyMin_first(a, b) == a

\* Python's min(a, b) and max(a, b): the first argument unless the second is
\* strictly smaller (larger)
PyMin(a, b) == IF Lt(b, a) THEN b ELSE a
PyMax(a, b) == IF Lt(a, b) THEN b ELSE a

(***************************************************************************)
(* Text: characters, and the str methods parse_one uses.                   *)
(***************************************************************************)
Digits == {"0", "1", "2", "3", "4", "5", "6", "7", "8", "9"}

DigitVal(c) ==
  CASE c = "0" -> 0 [] c = "1" -> 1 [] c = "2" -> 2 [] c = "3" -> 3
    [] c = "4" -> 4 [] c = "5" -> 5 [] c = "6" -> 6 [] c = "7" -> 7
    [] c = "8" -> 8 [] c = "9" -> 9

\* the characters str.strip() removes
Whitespace == {" ", "tab", "nl", "nbsp"}

\* str.lower(), one character
LowerChar(c) ==
  CASE c = "A" -> "a" [] c = "E" -> "e" [] c = "L" -> "l" [] c = "N" -> "n"
    [] c = "O" -> "o" [] c = "U" -> "u" [] OTHER -> c

lower(t) == [i \in DOMAIN t |-> LowerChar(t[i])]

RECURSIVE lstrip(_)
lstrip(t) ==
  IF t # <<>> /\ Head(t) \in Whitespace THEN lstrip(Tail(t)) ELSE t

RECURSIVE rstrip(_)
rstrip(t) ==
  IF t # <<>> /\ t[Len(t)] \in Whitespace
  THEN rstrip(SubSeq(t, 1, Len(t) - 1))
  ELSE t

strip(t) == rstrip(lstrip(t))

\* t.replace(c, "") and t.replace(c, b), c and b one character each
Remove(t, c) == SelectSeq(t, LAMBDA ch : ch # c)
Replace(t, c, b) == [i \in DOMAIN t |-> IF t[i] = c THEN b ELSE t[i]]

\* mutant of SubDashes: the em dash is not in the character class
SubDashes_noem(t) ==
  [i \in DOMAIN t |-> IF t[i] \in {"endash", "minus"} THEN "-" ELSE t[i]]

\* re.sub(r"[en dash, em dash, minus sign]", "-", t)
SubDashes(t) ==
  [i \in DOMAIN t |-> IF t[i] \in {"endash", "emdash", "minus"} THEN "-" ELSE t[i]]

Contains(t, c) == \E i \in DOMAIN t : t[i] = c

(***************************************************************************)
(* re.findall(r"[-+]?\d+(?:\.\d+)?", t): the non-overlapping matches,      *)
(* leftmost first, each as long as the pattern allows.                     *)
(***************************************************************************)
\* the first index at or after i that holds no digit
RECURSIVE DigitsEnd(_, _)
DigitsEnd(t, i) ==
  IF i <= Len(t) /\ t[i] \in Digits THEN DigitsEnd(t, i + 1) ELSE i

\* mutant of MatchEnd: the pattern without its optional sign, \d+(?:\.\d+)?
MatchEnd_nosign(t, i) ==
  LET e1 == DigitsEnd(t, i)
      e2 == IF e1 <= Len(t) /\ t[e1] = "." THEN DigitsEnd(t, e1 + 1) ELSE e1
  IN  IF e1 = i THEN 0
      ELSE IF e2 > e1 + 1 THEN e2 ELSE e1

\* mutant of MatchEnd: the pattern without its decimal part, [-+]?\d+
MatchEnd_nofrac(t, i) ==
  LET s  == IF t[i] \in {"-", "+"} THEN i + 1 ELSE i
      e1 == DigitsEnd(t, s)
  IN  IF e1 = s THEN 0 ELSE e1

\* the index after the match that starts at i, or 0 when none starts there
MatchEnd(t, i) ==
  LET s  == IF t[i] \in {"-", "+"} THEN i + 1 ELSE i
      e1 == DigitsEnd(t, s)
      e2 == IF e1 <= Len(t) /\ t[e1] = "." THEN DigitsEnd(t, e1 + 1) ELSE e1
  IN  IF e1 = s THEN 0
      ELSE IF e2 > e1 + 1 THEN e2 ELSE e1

RECURSIVE FindFrom(_, _)
FindFrom(t, i) ==
  IF i > Len(t) THEN <<>>
  ELSE LET e == MatchEnd(t, i)
       IN  IF e = 0 THEN FindFrom(t, i + 1)
           ELSE <<SubSeq(t, i, e - 1)>> \o FindFrom(t, e)

findall(t) == FindFrom(t, 1)

(***************************************************************************)
(* float(n) on text: an optional sign, digits with at most one point and   *)
(* at least one digit; anything else is a ValueError.                      *)
(***************************************************************************)
Unsigned(n) == IF n # <<>> /\ Head(n) \in {"-", "+"} THEN Tail(n) ELSE n

FloatOk(n) ==
  LET u == Unsigned(n)
  IN  /\ \A i \in DOMAIN u : u[i] \in Digits \cup {"."}
      /\ \E i \in DOMAIN u : u[i] \in Digits
      /\ Cardinality({i \in DOMAIN u : u[i] = "."}) <= 1

\* the number the digits of u spell, the point left out
RECURSIVE DigitsNum(_)
DigitsNum(u) ==
  IF u = <<>> THEN 0
  ELSE LET c == u[Len(u)]
           r == DigitsNum(SubSeq(u, 1, Len(u) - 1))
       IN  IF c = "." THEN r ELSE 10 * r + DigitVal(c)

RECURSIVE Pow10(_)
Pow10(k) == IF k = 0 THEN 1 ELSE 10 * Pow10(k - 1)

\* the digits of u after its point
FracLen(u) ==
  IF Contains(u, ".")
  THEN Len(u) - (CHOOSE i \in DOMAIN u : u[i] = ".")
  ELSE 0

FloatVal(n) ==
  LET u == Unsigned(n)
      m == DigitsNum(u)
  IN  Fin(IF n # <<>> /\ Head(n) = "-" THEN -m ELSE m, Pow10(FracLen(u)))

(***************************************************************************)
(* parse_one.  A cell is a record: na (pd.isna(x)) and s (str(x)).         *)
(***************************************************************************)
NA == [na |-> TRUE, s |-> <<>>]
Text(t) == [na |-> FALSE, s |-> t]

\* an uncaught exception, as a result
Raised == [k |-> "raise", n |-> 0, d |-> 1]

NanTokens ==
  { <<"n", "a", "n">>, <<"n", "/", "a">>, <<"n", "a">>,
    <<"n", "o", "n", "e">>, <<"n", "u", "l", "l">>, <<"-">>, <<"-", "-">> }

\* mutant of Normalized: the spaces and non-breaking spaces are kept
Normalized_keepspaces(t) ==
  Replace(SubDashes(Replace(t, ",", ".")), "agrave", "-")

\* lines 41-49: spaces and NBSP removed, the comma made a point, the dashes
\* and the French range word made a hyphen
Normalized(t) ==
  Replace(SubDashes(Replace(Remove(Remove(t, "nbsp"), " "), ",", ".")),
          "agrave", "-")

\* lines 56-61: the tokens float() accepts, converted
RECURSIVE Floats(_)
Floats(nums) ==
  IF nums = <<>> THEN <<>>
  ELSE IF FloatOk(Head(nums))
       THEN <<FloatVal(Head(nums))>> \o Floats(Tail(nums))
       ELSE Floats(Tail(nums))

\* vals[i - 1] of Python: an IndexError past the end
Item(vals, i) == IF i \in DOMAIN vals THEN vals[i] ELSE Raised

\* np.mean of two finite floats
Mean2(a, b) == Div(Add(a, b), Fin(2, 1))

\* mutant of parse_one: the two "nothing extracted" returns (lines 53-54 and
\* 63-64) are left out, so vals[0] is read from an empty list
parse_one_unguarded(x) ==
  IF x.na THEN NaN
  ELSE LET t0 == strip(x.s)
       IN  IF t0 = <<>> THEN NaN
           ELSE IF lower(t0) \in NanTokens THEN NaN
           ELSE LET t    == Normalized(t0)
                    vals == Floats(findall(t))
                IN  IF Len(vals) >= 2 /\ Contains(t, "-")
                    THEN Mean2(vals[1], vals[2])
                    ELSE Item(vals, 1)

\* mutant of parse_one: an empty cell and a NaN-like token count as zero
parse_one_sentinel_zero(x) ==
  IF x.na THEN NaN
  ELSE LET t0 == strip(x.s)
       IN  IF t0 = <<>> \/ lower(t0) \in NanTokens THEN Fin(0, 1)
           ELSE LET t    == Normalized(t0)
                    vals == Floats(findall(t))
                IN  IF vals = <<>> THEN NaN
                    ELSE IF Len(vals) >= 2 /\ Contains(t, "-")
                         THEN Mean2(vals[1], vals[2])
                         ELSE Item(vals, 1)

\* mutant of parse_one: zero, not NaN, when no number is found
parse_one_nonum_zero(x) ==
  IF x.na THEN NaN
  ELSE LET t0 == strip(x.s)
       IN  IF t0 = <<>> THEN NaN
           ELSE IF lower(t0) \in NanTokens THEN NaN
           ELSE LET t    == Normalized(t0)
                    vals == Floats(findall(t))
                IN  IF vals = <<>> THEN Fin(0, 1)
                    ELSE IF Len(vals) >= 2 /\ Contains(t, "-")
                         THEN Mean2(vals[1], vals[2])
                         ELSE Item(vals, 1)

\* mutant of parse_one: the mean of every value found, not of vals[:2]
RECURSIVE SumAll(_)
SumAll(vals) ==
  IF vals = <<>> THEN Fin(0, 1) ELSE Add(Head(vals), SumAll(Tail(vals)))

parse_one_meanall(x) ==
  IF x.na THEN NaN
  ELSE LET t0 == strip(x.s)
       IN  IF t0 = <<>> THEN NaN
           ELSE IF lower(t0) \in NanTokens THEN NaN
           ELSE LET t    == Normalized(t0)
                    vals == Floats(findall(t))
                IN  IF vals = <<>> THEN NaN
                    ELSE IF Len(vals) >= 2 /\ Contains(t, "-")
                         THEN Div(SumAll(vals), Fin(Len(vals), 1))
                         ELSE Item(vals, 1)

\* mutant of parse_one: two values are a range, hyphen or not
parse_one_anyrange(x) ==
  IF x.na THEN NaN
  ELSE LET t0 == strip(x.s)
       IN  IF t0 = <<>> THEN NaN
           ELSE IF lower(t0) \in NanTokens THEN NaN
           ELSE LET t    == Normalized(t0)
                    vals == Floats(findall(t))
                IN  IF vals = <<>> THEN NaN
                    ELSE IF Len(vals) >= 2
                         THEN Mean2(vals[1], vals[2])
                         ELSE Item(vals, 1)

parse_one(x) ==
  IF x.na THEN NaN
  ELSE LET t0 == strip(x.s)
       IN  IF t0 = <<>> THEN NaN
           ELSE IF lower(t0) \in NanTokens THEN NaN
           ELSE LET t    == Normalized(t0)
                    nums == findall(t)
                    vals == Floats(nums)
                IN  IF nums = <<>> THEN NaN
                    ELSE IF vals = <<>> THEN NaN
                    ELSE IF Len(vals) >= 2 /\ Contains(t, "-")
                         THEN Mean2(vals[1], vals[2])
                         ELSE Item(vals, 1)

(***************************************************************************)
(* str(n) of a finite float n, as Python writes it: the shortest decimal   *)
(* text that reads back as n, plain ("410.0", "-0.5") when the decimal     *)
(* exponent is in -4..15 and in exponent form ("1e-05") below that.        *)
(* Exponents of 16 and more are beyond the numbers of this model.          *)
(***************************************************************************)
DigitChar(k) ==
  CASE k = 0 -> "0" [] k = 1 -> "1" [] k = 2 -> "2" [] k = 3 -> "3"
    [] k = 4 -> "4" [] k = 5 -> "5" [] k = 6 -> "6" [] k = 7 -> "7"
    [] k = 8 -> "8" [] k = 9 -> "9"

RECURSIVE DigitsOf(_)
DigitsOf(m) ==
  IF m < 10 THEN <<DigitChar(m)>>
  ELSE DigitsOf(m \div 10) \o <<DigitChar(m % 10)>>

\* m written with at least k digits
RECURSIVE ZeroPad(_, _)
ZeroPad(ds, k) == IF Len(ds) >= k THEN ds ELSE ZeroPad(<<"0">> \o ds, k)

\* the number of decimals of f: the least k with f * 10^k an integer
DecimalsOf(f) ==
  CHOOSE k \in 0..9 :
    /\ Pow10(k) % f.d = 0
    /\ \A j \in 0..(k - 1) : Pow10(j) % f.d # 0

\* the decimal exponent of f, f not zero
Exponent10(f) ==
  LET k == DecimalsOf(f)
  IN  Len(DigitsOf(Abs(f.n) * (Pow10(k) \div f.d))) - 1 - k

PlainDecimal(f) == f.n = 0 \/ Exponent10(f) >= -4

\* f in plain decimal text: sign, integer digits, point, decimals
PlainText(f) ==
  LET k == DecimalsOf(f)
      m == Abs(f.n) * (Pow10(k) \div f.d)
  IN  (IF f.n < 0 THEN <<"-">> ELSE <<>>)
        \o DigitsOf(m \div Pow10(k)) \o <<".">>
        \o (IF k = 0 THEN <<"0">> ELSE ZeroPad(DigitsOf(m % Pow10(k)), k))

\* f in exponent form: one digit, the other digits, e-XX
ExponentText(f) ==
  LET k  == DecimalsOf(f)
      ds == DigitsOf(Abs(f.n) * (Pow10(k) \div f.d))
  IN  (IF f.n < 0 THEN <<"-">> ELSE <<>>)
        \o <<Head(ds)>>
        \o (IF Len(ds) > 1 THEN <<".">> \o Tail(ds) ELSE <<>>)
        \o <<"e", "-">> \o ZeroPad(DigitsOf(-Exponent10(f)), 2)

PyStr(f) == IF PlainDecimal(f) THEN PlainText(f) ELSE ExponentText(f)

\* mutant of to_num_series: what cannot be read counts as zero (fillna(0))
to_num_series_fillzero(s) ==
  [i \in DOMAIN s |->
     IF parse_one(s[i]) = NaN THEN Fin(0, 1) ELSE parse_one(s[i])]

\* lines 20-73: s.apply(parse_one).astype(float); an exception of parse_one
\* leaves the call
to_num_series(s) == [i \in DOMAIN s |-> parse_one(s[i])]

(***************************************************************************)
(* The cells the normalizer is given.                                      *)
(***************************************************************************)
\* every text of at most MaxLen characters over Alphabet
Alphabet ==
  {"1", "2", "0", "-", "+", ".", ",", " ", "nbsp", "endash", "agrave",
   "a", "N", "/", ">"}

SeqsUpTo(S, n) == UNION {[1..m -> S] : m \in 0..n}

ShortTexts == SeqsUpTo(Alphabet, MaxLen)

\* whitespace around a cell
PadChars == {" ", "tab", "nbsp"}
Pads == SeqsUpTo(PadChars, MaxPad)

\* a NaN-like token in every letter case, whitespace around it
CaseChars ==
  {"n", "N", "a", "A", "o", "O", "e", "E", "u", "U", "l", "L", "/", "-"}

CaseVariants(tok) ==
  {t \in [DOMAIN tok -> CaseChars] : \A i \in DOMAIN tok : LowerChar(t[i]) = tok[i]}

SentinelTexts == {<<>>} \cup UNION {CaseVariants(tok) : tok \in NanTokens}

SentinelCells == {l \o t \o r : l \in Pads, t \in SentinelTexts, r \in Pads}

\* unsigned numbers as written, each with the number it denotes
Lits ==
  { [s |-> <<"3", "7", "0">>, val |-> Fin(370, 1)],
    [s |-> <<"4", "5", "0">>, val |-> Fin(450, 1)],
    [s |-> <<"0">>,           val |-> Fin(0, 1)],
    [s |-> <<"7">>,           val |-> Fin(7, 1)],
    [s |-> <<"1", "2">>,      val |-> Fin(12, 1)],
    [s |-> <<"0", "7">>,      val |-> Fin(7, 1)],
    [s |-> <<"1", ".", "5">>, val |-> Fin(3, 2)],
    [s |-> <<"2", ",", "2", "5">>, val |-> Fin(9, 4)] }

\* the separators of a range
HyphenSeps == {<<"-">>, <<" ", "-", " ">>}
AgraveSeps == {<<"agrave">>, <<" ", "agrave", " ">>}
DashSeps   == {<<"endash">>, <<"emdash">>, <<"minus">>}
RangeSeps  == HyphenSeps \cup AgraveSeps \cup DashSeps

RangeCells == {a.s \o sep \o b.s : a \in Lits, b \in Lits, sep \in RangeSeps}

\* one number with noise before and after it
Prefixes == {<<>>, <<">">>, <<"~">>, <<"<">>, <<"c", "a", " ">>}
Signs    == {<<>>, <<"-">>, <<"+">>}
Suffixes == {<<>>, <<"+">>, <<" ", "t", "/", "y">>, <<"%">>}

SingleCells ==
  {p \o g \o a.s \o q : p \in Prefixes, g \in Signs, a \in Lits, q \in Suffixes}

\* one number written with thousands separators and a decimal comma
GroupSeps  == {<<" ">>, <<"nbsp">>}
GroupHeads == { [s |-> <<"1">>, val |-> 1], [s |-> <<"1", "2">>, val |-> 12] }
GroupTails ==
  { [s |-> <<"2", "3", "4">>, val |-> 234], [s |-> <<"0", "0", "0">>, val |-> 0] }
GroupFracs ==
  { [s |-> <<>>, val |-> Fin(0, 1)],
    [s |-> <<",", "5">>, val |-> Fin(1, 2)],
    [s |-> <<",", "2", "5">>, val |-> Fin(1, 4)] }

GroupedCells ==
  {h.s \o g \o t.s \o f.s :
     h \in GroupHeads, g \in GroupSeps, t \in GroupTails, f \in GroupFracs}

\* the examples of the documentation, for columns of several cells
ExampleCells ==
  { <<"3", "7", "0", "-", "4", "5", "0">>,
    <<"3", "7", "0", " ", "agrave", " ", "4", "5", "0">>,
    <<">", "4", "5", "0">>, <<"~", "4", "5", "0">>, <<"4", "5", "0", "+">>,
    <<"-", "5">>, <<"1", " ", "2", "3", "4", ",", "5">>,
    <<"N", "/", "A">>, <<"a", "b", "c">>, <<"-", "1", "2", "-", "3", "4">>,
    <<"1", "0", "/", "2", "0">>, <<"1", ",", "2", "3", "4", ".", "5">>,
    <<"4", "1", "0", ".", "0">>, <<"0", ".", "0", "0", "0", "0", "1">> }

\* several numbers in one cell: a-b-c, -a-b, a/b, a/b-c, a+b, a b/c
SmallLits == {a \in Lits : a.s \in {<<"3", "7", "0">>, <<"7">>, <<"1", ".", "5">>}}

MultiCells ==
  UNION { { a.s \o <<"-">> \o b.s \o <<"-">> \o c.s,
            <<"-">> \o a.s \o <<"-">> \o b.s,
            a.s \o <<"/">> \o b.s,
            a.s \o <<"/">> \o b.s \o <<"-">> \o c.s,
            a.s \o <<"+">> \o b.s,
            a.s \o <<"/">> \o b.s \o <<"/">> \o c.s } :
          a \in SmallLits, b \in SmallLits, c \in SmallLits }

Texts ==
  ShortTexts \cup SentinelCells \cup RangeCells \cup SingleCells
    \cup GroupedCells \cup ExampleCells \cup MultiCells

Cells == {NA} \cup {Text(t) : t \in Texts}

ExampleColumns ==
  UNION {[1..m -> {NA} \cup {Text(t) : t \in ExampleCells}] : m \in 2..MaxRows}

Columns == {<<c>> : c \in Cells} \cup ExampleColumns

(***************************************************************************)
(* make_scaler and the closure it returns.                                 *)
(***************************************************************************)
\* sorted(vals), vals finite
RECURSIVE Insert(_, _)
Insert(a, sq) ==
  IF sq = <<>> THEN <<a>>
  ELSE IF Le(a, Head(sq)) THEN <<a>> \o sq
       ELSE <<Head(sq)>> \o Insert(a, Tail(sq))

RECURSIVE Sorted(_)
Sorted(sq) == IF sq = <<>> THEN <<>> ELSE Insert(Head(sq), Sorted(Tail(sq)))

\* line 81: .replace([np.inf, -np.inf], np.nan).dropna()
\* mutant of Retained: missing and infinite entries count as zero (fillna)
Retained_fillzero(vs) ==
  [i \in DOMAIN vs |-> IF IsFin(vs[i]) THEN vs[i] ELSE Fin(0, 1)]

Retained(vs) == SelectSeq(vs, IsFin)

\* vals.quantile(q), q = qn/qd, by linear interpolation between the two
\* order statistics around position q * (len - 1); vals is not empty
Quantile(vals, qn, qd) ==
  LET sq   == Sorted(vals)
      pos  == Fin(qn * (Len(sq) - 1), qd)
      lo   == pos.n \div pos.d
      frac == Sub(pos, Fin(lo, 1))
  IN  IF frac.n = 0 THEN sq[lo + 1]
      ELSE Add(sq[lo + 1], Mul(Sub(sq[lo + 2], sq[lo + 1]), frac))

SeqMin(vals) == Sorted(vals)[1]
SeqMax(vals) == Sorted(vals)[Len(vals)]

\* (r_min + r_max) / 2.0
Midpoint(lo, hi) == Div(Add(lo, hi), Fin(2, 1))

NoScaler ==
  [kind |-> "none", v_min |-> NaN, v_max |-> NaN, r_min |-> NaN, r_max |-> NaN]

\* mutant of make_scaler: no constant function for an empty collection, the
\* bounds default to [0, 1]
make_scaler_noempty(vs, lo, hi) ==
  [kind |-> "linear", v_min |-> Fin(0, 1), v_max |-> Fin(1, 1),
   r_min |-> lo, r_max |-> hi]

\* mutant of make_scaler: minimum and maximum, never the percentiles
make_scaler_minmax(vs, lo, hi) ==
  LET vals == Retained(vs)
  IN  IF vals = <<>>
      THEN [kind |-> "const", v_min |-> NaN, v_max |-> NaN,
            r_min |-> lo, r_max |-> hi]
      ELSE LET mn == SeqMin(vals)
               mx == SeqMax(vals)
           IN  [kind |-> "linear", v_min |-> mn,
                v_max |-> IF Lt(mn, mx) THEN mx ELSE Add(mn, Fin(1, 1)),
                r_min |-> lo, r_max |-> hi]

\* mutant of make_scaler: the fallback stops at the maximum, no v_min + 1.0
make_scaler_noplus1(vs, lo, hi) ==
  LET vals == Retained(vs)
  IN  IF vals = <<>>
      THEN [kind |-> "const", v_min |-> NaN, v_max |-> NaN,
            r_min |-> lo, r_max |-> hi]
      ELSE LET q05 == Quantile(vals, 1, 20)
               q95 == Quantile(vals, 19, 20)
           IN  IF Le(q95, q05)
               THEN [kind |-> "linear", v_min |-> SeqMin(vals),
                     v_max |-> SeqMax(vals), r_min |-> lo, r_max |-> hi]
               ELSE [kind |-> "linear", v_min |-> q05, v_max |-> q95,
                     r_min |-> lo, r_max |-> hi]

\* mutant of make_scaler: equal values get bounds centred on the value
make_scaler_centred(vs, lo, hi) ==
  LET vals == Retained(vs)
  IN  IF vals = <<>>
      THEN [kind |-> "const", v_min |-> NaN, v_max |-> NaN,
            r_min |-> lo, r_max |-> hi]
      ELSE LET q05 == Quantile(vals, 1, 20)
               q95 == Quantile(vals, 19, 20)
               mn  == SeqMin(vals)
               mx  == SeqMax(vals)
           IN  IF Le(q95, q05)
               THEN IF Lt(mn, mx)
                    THEN [kind |-> "linear", v_min |-> mn, v_max |-> mx,
                          r_min |-> lo, r_max |-> hi]
                    ELSE [kind |-> "linear",
                          v_min |-> Sub(mn, Fin(1, 2)),
                          v_max |-> Add(mn, Fin(1, 2)),
                          r_min |-> lo, r_max |-> hi]
               ELSE [kind |-> "linear", v_min |-> q05, v_max |-> q95,
                     r_min |-> lo, r_max |-> hi]

\* lines 80-100: the closure, with the variables it captures
make_scaler(vs, lo, hi) ==
  LET vals == Retained(vs)
  IN  IF vals = <<>>
      THEN [kind |-> "const", v_min |-> NaN, v_max |-> NaN,
            r_min |-> lo, r_max |-> hi]
      ELSE LET q05 == Quantile(vals, 1, 20)
               q95 == Quantile(vals, 19, 20)
               mn  == SeqMin(vals)
               mx  == SeqMax(vals)
           IN  IF Le(q95, q05)
               THEN [kind |-> "linear", v_min |-> mn,
                     v_max |-> IF Lt(mn, mx) THEN mx ELSE Add(mn, Fin(1, 1)),
                     r_min |-> lo, r_max |-> hi]
               ELSE [kind |-> "linear", v_min |-> q05, v_max |-> q95,
                     r_min |-> lo, r_max |-> hi]

\* What a scaler is called with: None, text, or a float.  NoArg: not called.
NoArg == [t |-> "unset", s |-> <<>>, f |-> NaN]
None == [t |-> "none", s |-> <<>>, f |-> NaN]
Str(t) == [t |-> "text", s |-> t, f |-> NaN]
Float(f) == [t |-> "float", s |-> <<>>, f |-> f]

\* float(v): ok with the value, or a TypeError (None) or ValueError (text
\* that spells no number)
ToFloat(a) ==
  CASE a.t = "none"  -> [ok |-> FALSE, val |-> NaN]
    [] a.t = "text"  -> IF FloatOk(strip(a.s))
                        THEN [ok |-> TRUE, val |-> FloatVal(strip(a.s))]
                        ELSE [ok |-> FALSE, val |-> NaN]
    [] a.t = "float" -> [ok |-> TRUE, val |-> a.f]

\* mutant of scale: the argument is not clamped to [v_min, v_max]
scale_noclamp(sc, a) ==
  LET mid == Midpoint(sc.r_min, sc.r_max)
      x   == ToFloat(a)
  IN  IF sc.kind = "const" \/ ~x.ok \/ IsNaN(x.val) THEN mid
      ELSE IF IsInf(x.val) THEN x.val
      ELSE Add(sc.r_min,
               Div(Mul(Sub(x.val, sc.v_min), Sub(sc.r_max, sc.r_min)),
                   Sub(sc.v_max, sc.v_min)))

\* mutant of scale: NaN is not tested for, and goes through the arithmetic
scale_nonan(sc, a) ==
  LET mid == Midpoint(sc.r_min, sc.r_max)
      x   == ToFloat(a)
  IN  IF sc.kind = "const" \/ ~x.ok THEN mid
      ELSE IF IsNaN(x.val) THEN NaN
      ELSE LET x_clamped == PyMax(PyMin(x.val, sc.v_max), sc.v_min)
           IN  Add(sc.r_min,
                   Div(Mul(Sub(x_clamped, sc.v_min), Sub(sc.r_max, sc.r_min)),
                       Sub(sc.v_max, sc.v_min)))

\* mutant of scale: the distance is taken from v_max, not from v_min
scale_reversed(sc, a) ==
  LET mid == Midpoint(sc.r_min, sc.r_max)
      x   == ToFloat(a)
  IN  IF sc.kind = "const" \/ ~x.ok \/ IsNaN(x.val) THEN mid
      ELSE LET x_clamped == PyMax(PyMin(x.val, sc.v_max), sc.v_min)
           IN  Add(sc.r_min,
                   Div(Mul(Sub(sc.v_max, x_clamped), Sub(sc.r_max, sc.r_min)),
                       Sub(sc.v_max, sc.v_min)))

\* lines 83 and 90-98
scale(sc, a) ==
  LET mid == Midpoint(sc.r_min, sc.r_max)
      x   == ToFloat(a)
  IN  IF sc.kind = "const" THEN mid
      ELSE IF ~x.ok THEN mid
      ELSE IF IsNaN(x.val) THEN mid
      ELSE LET x_clamped == PyMax(PyMin(x.val, sc.v_max), sc.v_min)
               width     == Sub(sc.v_max, sc.v_min)
           IN  IF width.n = 0 THEN Raised
               ELSE Add(sc.r_min,
                        Div(Mul(Sub(x_clamped, sc.v_min),
                                Sub(sc.r_max, sc.r_min)), width))

(***************************************************************************)
(* The reference collections, radius ranges and arguments of the scaler.   *)
(***************************************************************************)
Nums == {Fin(k, 1) : k \in 0..MaxNum}

\* every collection of at most MaxVals entries, missing and infinite ones
\* among them
ShortCollections == SeqsUpTo(Nums \cup {NaN, PInf, NInf}, MaxVals)

\* a collection whose 5th and 95th percentiles meet while its minimum and
\* maximum differ: one value repeated, one entry below and one above
RunLen == 20
SpikedCollections ==
  {<<a>> \o [i \in 1..RunLen |-> c] \o <<b>> : a \in Nums, c \in Nums, b \in Nums}

Collections == ShortCollections \cup SpikedCollections

\* --min-radius and --max-radius: the defaults, a range from zero, an empty
\* range and a reversed one (the options are not validated)
RadiusRanges ==
  { <<Fin(5, 1), Fin(16, 1)>>, <<Fin(0, 1), Fin(11, 2)>>,
    <<Fin(7, 1), Fin(7, 1)>>, <<Fin(16, 1), Fin(5, 1)>> }

Probes ==
  {Fin(k, 2) : k \in -2..(2 * MaxNum + 4)} \cup {PInf, NInf, Fin(-1000, 1), Fin(1000, 1)}

Unparsable == {None, Float(NaN), Str(<<"a", "b", "c">>), Str(<<>>), Str(<<"-">>)}

Args ==
  Unparsable \cup {Float(f) : f \in Probes} \cup {Str(<<"1">>), Str(<<" ", "2", ".", "5">>)}

(***************************************************************************)
(* The specifications.                                                     *)
(***************************************************************************)
\* the history of calls: not kept, kept and still empty, or one call and
\* whether another argument was passed since
Unrecorded == [m |-> "off", v |-> NoArg, y |-> NaN, between |-> FALSE]
Armed == [m |-> "armed", v |-> NoArg, y |-> NaN, between |-> FALSE]
Recorded(a, r) == [m |-> "set", v |-> a, y |-> r, between |-> FALSE]

ScalerIdle ==
  /\ values = <<>>
  /\ r_min = Fin(5, 1)
  /\ r_max = Fin(16, 1)
  /\ scaler = NoScaler
  /\ v = NoArg
  /\ y = NaN
  /\ first = Unrecorded

NormIdle ==
  /\ series = <<>>
  /\ out = <<>>
  /\ npc = "idle"

NoPoints == [supply |-> <<>>, offtake |-> <<>>, competitors |-> <<>>]

\* no site is focused; no history outside zoom mode
NoSite == 0
NoHistory == [shown |-> {}, only |-> FALSE]

\* no page is open
PageIdle ==
  /\ SITES = <<>>
  /\ visibility_mode = "both"
  /\ checked = {}
  /\ markersLayer = {}
  /\ visible_count = 0
  /\ searchActive = FALSE
  /\ matchingMarkers = {}
  /\ zoomMode = FALSE
  /\ currentFocusSite = NoSite
  /\ isochroneEnabled = FALSE
  /\ isochroneLayers = {}
  /\ savedFilteredMarkers = {}
  /\ pending = <<>>
  /\ shownBefore = NoHistory

OppIdle ==
  /\ points = NoPoints
  /\ opportunity_points = <<>>
  /\ opc = "idle"
  /\ PageIdle

\* an auxiliary file: whether it can be opened, and its rows: "ok" loads,
\* "bad" raises when it is read, "skip" is a gas feature without geometry
AuxFile(e, rows) == [exists |-> e, rows |-> rows]
Missing == AuxFile(FALSE, <<>>)
NoAux == [ghg |-> Missing, nodes |-> Missing, edges |-> Missing, gas |-> Missing]

\* no output file
NoFile == [written |-> FALSE]

MainIdle ==
  /\ csv = <<>>
  /\ columns = {}
  /\ size_by = "auto"
  /\ df = <<>>
  /\ scalers = <<>>
  /\ site_data = <<>>
  /\ mpc = "idle"
  /\ aux = NoAux
  /\ grid_nodes = <<>>
  /\ grid_edges = <<>>
  /\ gas_pipelines = <<>>
  /\ html = NoFile
  /\ OppIdle

\* the normalizer: a column is given, to_num_series is applied to it
NormInit ==
  /\ series \in Columns
  /\ out = <<>>
  /\ npc = "apply"
  /\ ScalerIdle
  /\ MainIdle

ToNumSeries ==
  /\ npc = "apply"
  /\ LET res == to_num_series(series)
     IN  IF \E i \in DOMAIN res : res[i] = Raised
         THEN npc' = "raised" /\ out' = out
         ELSE npc' = "done" /\ out' = res
  /\ UNCHANGED <<series, svars, mvars, ovars, pvars>>

NormNext == ToNumSeries

NormSpec == NormInit /\ [][NormNext]_vars

\* the scaler: make_scaler is called once, the closure any number of times
ScalerInit ==
  /\ NormIdle
  /\ values \in Collections
  /\ \E rr \in RadiusRanges : r_min = rr[1] /\ r_max = rr[2]
  /\ scaler = NoScaler
  /\ v = NoArg
  /\ y = NaN
  /\ first = Unrecorded
  /\ MainIdle

MakeScaler ==
  /\ scaler = NoScaler
  /\ scaler' = make_scaler(values, r_min, r_max)
  /\ UNCHANGED <<nvars, mvars, ovars, pvars, values, r_min, r_max, v, y, first>>

\* the closure is called: with any argument, an entry of the reference
\* collection or one of its own bounds
CallArgs ==
  Args \cup {Float(values[i]) : i \in DOMAIN values}
       \cup (IF scaler.kind = "linear"
             THEN {Float(scaler.v_min), Float(scaler.v_max)} ELSE {})

\* the history keeps any one call, chosen freely, when it is kept at all
Remember(a, r) ==
  CASE first.m = "armed" -> first' \in {Armed, Recorded(a, r)}
    [] first.m = "set"   -> first' = [first EXCEPT !.between = @ \/ a # first.v]
    [] OTHER             -> first' = first

\* mutant of Scale: the closure widens v_max to the largest argument seen
Scale_adaptive ==
  /\ scaler # NoScaler
  /\ \E a \in CallArgs :
       /\ v' = a
       /\ y' = scale(scaler, a)
       /\ scaler' =
            IF /\ scaler.kind = "linear"
               /\ ToFloat(a).ok
               /\ IsFin(ToFloat(a).val)
               /\ Lt(scaler.v_max, ToFloat(a).val)
            THEN [scaler EXCEPT !.v_max = ToFloat(a).val]
            ELSE scaler
       /\ Remember(a, y')
  /\ UNCHANGED <<nvars, mvars, ovars, pvars, values, r_min, r_max>>

Scale ==
  /\ scaler # NoScaler
  /\ \E a \in CallArgs :
       /\ v' = a
       /\ y' = scale(scaler, a)
       /\ Remember(a, y')
  /\ UNCHANGED <<nvars, mvars, ovars, pvars, values, r_min, r_max, scaler>>

ScalerNext == MakeScaler \/ Scale

ScalerSpec == ScalerInit /\ [][ScalerNext]_vars

\* the scaler with the history of one earlier call kept, on the collections
\* of at most one entry and on two of two entries
HistoryCollections ==
  SeqsUpTo(Nums \cup {NaN, PInf, NInf}, 1)
    \cup {<<Fin(0, 1), Fin(2, 1)>>, <<Fin(1, 1), Fin(1, 1)>>}

HistoryInit ==
  /\ NormIdle
  /\ values \in HistoryCollections
  /\ \E rr \in RadiusRanges : r_min = rr[1] /\ r_max = rr[2]
  /\ scaler = NoScaler
  /\ v = NoArg
  /\ y = NaN
  /\ first = Armed
  /\ MainIdle

HistorySpec == HistoryInit /\ [][ScalerNext]_vars

(***************************************************************************)
(* main: the CSV file is read, the rows without coordinates are dropped,   *)
(* the numeric columns are normalized, the Layer and category columns are  *)
(* required, one scaler is built for each numeric column and one site      *)
(* record is composed for each row; then the page is written.              *)
(***************************************************************************)
CapCol      == "capacite_gwh_year"
CapFallback == "capacite_gwh_year/co2_injection_potential_tpy"
Co2Col      == "co2_injection_potential_tpy"
KtCol       == "capacity_kt_per_year"
NumCols     == {CapCol, CapFallback, Co2Col, KtCol}

\* lines 2475-2477: the column names, "" standing for None
capacity_col    == IF CapCol \in columns THEN CapCol ELSE CapFallback
co2_col         == IF Co2Col \in columns THEN Co2Col ELSE ""
capacity_kt_col == IF KtCol \in columns THEN KtCol ELSE ""

\* Python's None as a value of a site record
PyNone == [k |-> "none", n |-> 0, d |-> 1]

\* r.get(col, None) if col in r else None
Get(r, col) == IF col \in DOMAIN r.cells THEN r.cells[col] ELSE PyNone

\* df[col]
Column(frame, col) == [i \in DOMAIN frame |-> frame[i].cells[col]]

\* lines 2529-2531: lambda v: (args.min_radius + args.max_radius)/2
MidpointLambda(lo, hi) ==
  [kind |-> "const", v_min |-> NaN, v_max |-> NaN, r_min |-> lo, r_max |-> hi]

\* a scaler called with a value of a row
Call(sc, val) == scale(sc, IF val = PyNone THEN None ELSE Float(val))

Efuels == {"E-methanol", "E-SAF"}

\* mutant of pick_radius: in auto mode an Offtake site is always sized by
\* the CO2 column
pick_radius_offtake_co2(layer, category, cap_val, co2_val, kt_val) ==
  IF size_by = "capacity"
  THEN IF category \in Efuels
       THEN Call(scalers.kt, kt_val)
       ELSE Call(scalers.cap, cap_val)
  ELSE IF size_by = "co2" THEN Call(scalers.co2, co2_val)
  ELSE IF layer = "Supply" THEN Call(scalers.cap, cap_val)
  ELSE IF layer = "Offtake" THEN Call(scalers.co2, co2_val)
  ELSE IF layer = "Competitors" THEN Call(scalers.co2, co2_val)
  ELSE Call(scalers.cap, cap_val)

\* lines 2533-2552
pick_radius(layer, category, cap_val, co2_val, kt_val) ==
  IF size_by = "capacity"
  THEN IF category \in Efuels
       THEN Call(scalers.kt, kt_val)
       ELSE Call(scalers.cap, cap_val)
  ELSE IF size_by = "co2" THEN Call(scalers.co2, co2_val)
  ELSE IF layer = "Supply" THEN Call(scalers.cap, cap_val)
  ELSE IF layer = "Offtake"
       THEN IF category \in Efuels
            THEN Call(scalers.kt, kt_val)
            ELSE Call(scalers.co2, co2_val)
  ELSE IF layer = "Competitors" THEN Call(scalers.co2, co2_val)
  ELSE Call(scalers.cap, cap_val)

\* lines 2566-2590: metric_label and metric_value
Metric(layer, category, cap, co2, kt) ==
  IF size_by = "capacity"
  THEN IF category \in Efuels
       THEN [label |-> "Capacity (kt/year)", value |-> kt]
       ELSE [label |-> "Capacity (GWh/year)", value |-> cap]
  ELSE IF size_by = "co2"
       THEN [label |-> "bioCO2 injection potential (t/y)", value |-> co2]
  ELSE IF layer = "Supply"
       THEN [label |-> "Capacity (GWh/year)", value |-> cap]
  ELSE IF layer = "Offtake"
       THEN IF category \in Efuels
            THEN [label |-> "Capacity (kt/year)", value |-> kt]
            ELSE [label |-> "bioCO2 injection potential (t/y)", value |-> co2]
  ELSE IF layer = "Competitors"
       THEN [label |-> "CO2 capacity (t/y)", value |-> co2]
  ELSE [label |-> "Capacity (GWh/year)", value |-> cap]

\* lines 2556-2612: the site record of the row r
Site(r) ==
  LET cap == Get(r, capacity_col)
      co2 == Get(r, co2_col)
      kt  == Get(r, capacity_kt_col)
      m   == Metric(r.layer, r.category, cap, co2, kt)
  IN  [layer |-> r.layer, category |-> r.category,
       capacity_gwh_year |-> cap, capacity_kt_per_year |-> kt,
       co2_injection_potential_tpy |-> co2,
       radius |-> pick_radius(r.layer, r.category, cap, co2, kt),
       size_metric_label |-> m.label, size_metric_value |-> m.value]

\* the CSV files: the columns they have, and their rows
Labelled == {"Layer", "category"}

ColumnSets ==
  {Labelled \cup c : c \in SUBSET {CapCol, Co2Col, KtCol}}
    \cup {Labelled \cup {CapFallback, Co2Col, KtCol}, Labelled \cup {CapFallback}}
    \cup {l \cup {CapCol, Co2Col, KtCol} : l \in (SUBSET Labelled) \ {Labelled}}

Layers     == {"Supply", "Offtake", "Competitors", "Storage"}
Categories == {"E-methanol", "E-SAF", "Biomethane"}

MainCells == {NA, Text(<<"a", "b", "c">>), Text(<<"7">>)}

Rows(cols) ==
  [ok       : BOOLEAN,
   layer    : IF "Layer" \in cols THEN Layers ELSE {""},
   category : IF "category" \in cols THEN Categories ELSE {""},
   cells    : [cols \cap NumCols -> MainCells]]

\* the other rows of the file: none, or one whose cells are all numbers
OtherRow(cols) ==
  [ok       |-> TRUE,
   layer    |-> IF "Layer" \in cols THEN "Supply" ELSE "",
   category |-> IF "category" \in cols THEN "Biomethane" ELSE "",
   cells    |-> [c \in cols \cap NumCols |->
                   CASE c = Co2Col -> Text(<<"3", "7", "0">>)
                     [] c = KtCol  -> Text(<<"2">>)
                     [] OTHER      -> Text(<<"1", "2">>)]]

Files(cols) ==
  {<<r>> \o rest : r \in Rows(cols), rest \in {<<>>, <<OtherRow(cols)>>}}

\* --min-radius and --max-radius
MainRanges == {<<Fin(5, 1), Fin(16, 1)>>, <<Fin(0, 1), Fin(11, 2)>>}

SizeBys == {"auto", "capacity", "co2"}

\* the auxiliary files: of at most MaxAux rows each
MaxAux == 2
RowsOf(kinds) == SeqsUpTo(kinds, MaxAux)
Good == AuxFile(TRUE, <<"ok">>)
GoodAux == [ghg |-> Good, nodes |-> Good, edges |-> Good, gas |-> Good]
FilesOf(kinds) == {Missing} \cup {AuxFile(TRUE, rows) : rows \in RowsOf(kinds)}

\* one data set varies at a time, the other ones are there or not
AuxSets ==
  {[ghg |-> g, nodes |-> o, edges |-> o, gas |-> p] :
     g \in FilesOf({"ok", "bad", "badxy"}), o \in {Missing, Good},
     p \in {Missing, Good}}
  \cup {[ghg |-> o, nodes |-> n, edges |-> e, gas |-> p] :
     n \in FilesOf({"ok", "bad"}), e \in FilesOf({"ok", "bad"}),
     o \in {Missing, Good}, p \in {Missing, Good}}
  \cup {[ghg |-> o, nodes |-> p, edges |-> p, gas |-> g] :
     g \in FilesOf({"ok", "skip", "bad"}), o \in {Missing, Good},
     p \in {Missing, Good}}

MainInit ==
  /\ NormIdle
  /\ values = <<>>
  /\ scaler = NoScaler
  /\ v = NoArg
  /\ y = NaN
  /\ first = Unrecorded
  /\ \E rr \in MainRanges : r_min = rr[1] /\ r_max = rr[2]
  /\ columns \in ColumnSets
  /\ size_by \in SizeBys
  /\ csv \in Files(columns)
  /\ df = <<>>
  /\ scalers = <<>>
  /\ site_data = <<>>
  /\ mpc = "read"
  /\ aux \in {NoAux, GoodAux}
  /\ grid_nodes = <<>>
  /\ grid_edges = <<>>
  /\ gas_pipelines = <<>>
  /\ html = NoFile
  /\ OppIdle

\* lines 2455-2468: read_csv, then dropna(subset=["latitude", "longitude"])
ReadCsv ==
  /\ mpc = "read"
  /\ df' = SelectSeq(csv, LAMBDA r : r.ok)
  /\ mpc' = "clean"
  /\ UNCHANGED <<xvars, avars, csv, columns, size_by, scalers, site_data>>

\* lines 2487-2492: to_num_series on the numeric columns the file has
CleanNumeric ==
  /\ mpc = "clean"
  /\ LET cleaned == {capacity_col, co2_col, capacity_kt_col} \cap columns
         res     == [c \in cleaned |-> to_num_series(Column(df, c))]
     IN  IF \E c \in cleaned : \E i \in DOMAIN df : res[c][i] = Raised
         THEN mpc' = "raised" /\ df' = df
         ELSE /\ mpc' = "check"
              /\ df' = [i \in DOMAIN df |->
                          [df[i] EXCEPT !.cells =
                             [c \in DOMAIN @ |->
                                IF c \in cleaned THEN res[c][i] ELSE @[c]]]]
  /\ UNCHANGED <<xvars, avars, csv, columns, size_by, scalers, site_data>>

\* lines 2495-2499
CheckColumns ==
  /\ mpc = "check"
  /\ mpc' = IF Labelled \subseteq columns THEN "sizing" ELSE "ValueError"
  /\ UNCHANGED <<xvars, avars, csv, columns, size_by, df, scalers, site_data>>

\* lines 2529-2531
BuildScalers ==
  /\ mpc = "sizing"
  /\ scalers' =
       [cap |-> IF capacity_col \in columns
                THEN make_scaler(Column(df, capacity_col), r_min, r_max)
                ELSE MidpointLambda(r_min, r_max),
        co2 |-> IF co2_col \in columns
                THEN make_scaler(Column(df, co2_col), r_min, r_max)
                ELSE MidpointLambda(r_min, r_max),
        kt  |-> IF capacity_kt_col \in columns
                THEN make_scaler(Column(df, capacity_kt_col), r_min, r_max)
                ELSE MidpointLambda(r_min, r_max)]
  /\ mpc' = "compose"
  /\ UNCHANGED <<xvars, avars, csv, columns, size_by, df, site_data>>

\* lines 2555-2612: one record for each row of the frame
ComposeSites ==
  /\ mpc = "compose"
  /\ LET sites == [i \in DOMAIN df |-> Site(df[i])]
     IN  IF \E i \in DOMAIN sites : sites[i].radius = Raised
         THEN mpc' = "raised" /\ site_data' = site_data
         ELSE mpc' = "greenhouses" /\ site_data' = sites
  /\ UNCHANGED <<xvars, avars, csv, columns, size_by, df, scalers>>

\* the rows read before the first one of the kinds that raise
RECURSIVE ReadUntil(_, _)
ReadUntil(rows, raising) ==
  IF rows = <<>> \/ Head(rows) \in raising THEN <<>>
  ELSE <<Head(rows)>> \o ReadUntil(Tail(rows), raising)

Raises(f, raising) ==
  ~f.exists \/ \E i \in DOMAIN f.rows : f.rows[i] \in raising

\* lines 2654-2674: the site record of a greenhouse
GreenhouseSite ==
  [layer |-> "Offtake", category |-> "Greenhouses",
   capacity_gwh_year |-> Fin(0, 1), capacity_kt_per_year |-> Fin(0, 1),
   co2_injection_potential_tpy |-> Fin(0, 1), radius |-> Fin(6, 1),
   size_metric_label |-> "Probability", size_metric_value |-> Fin(1, 2)]

\* lines 2620-2684, the body of the try: the file is read, a first loop
\* converts prob_mean of every row ("bad" raises), min() raises on no row at
\* all, a second loop converts the coordinates ("bad" and "badxy" raise) and
\* appends to greenhouses_data; site_data is extended after the loop
TryGreenhouses(f) ==
  LET first_raises == Raises(f, {"bad"}) \/ f.rows = <<>>
      data == IF first_raises THEN <<>>
              ELSE [i \in DOMAIN ReadUntil(f.rows, {"bad", "badxy"}) |->
                      GreenhouseSite]
  IN  [raised |-> first_raises \/ Raises(f, {"badxy"}),
       greenhouses_data |-> data]

\* lines 2618-2691
LoadGreenhouses ==
  /\ mpc = "greenhouses"
  /\ LET t == TryGreenhouses(aux.ghg)
     IN  site_data' = IF t.raised THEN site_data
                      ELSE site_data \o t.greenhouses_data
  /\ mpc' = "grid"
  /\ UNCHANGED <<xvars, csv, columns, size_by, df, scalers,
                 aux, grid_nodes, grid_edges, gas_pipelines, html>>

\* lines 2714-2735, the body of the try: the nodes are appended to
\* grid_nodes one by one, then the edges to grid_edges
TryGrid(nf, ef) ==
  LET nodes == [i \in DOMAIN ReadUntil(nf.rows, {"bad"}) |->
                  [kind |-> "node", row |-> i]]
      edges == [i \in DOMAIN ReadUntil(ef.rows, {"bad"}) |->
                  [kind |-> "edge", row |-> i]]
  IN  IF Raises(nf, {"bad"})
      THEN [raised |-> TRUE,
            grid_nodes |-> IF nf.exists THEN nodes ELSE <<>>,
            grid_edges |-> <<>>]
      ELSE [raised |-> Raises(ef, {"bad"}),
            grid_nodes |-> nodes,
            grid_edges |-> IF ef.exists THEN edges ELSE <<>>]

\* mutant of LoadGrid: the handler empties grid_edges only
LoadGrid_keepnodes ==
  /\ mpc = "grid"
  /\ LET t == TryGrid(aux.nodes, aux.edges)
     IN  /\ grid_nodes' = t.grid_nodes
         /\ grid_edges' = IF t.raised THEN <<>> ELSE t.grid_edges
  /\ mpc' = "gas"
  /\ UNCHANGED <<xvars, csv, columns, size_by, df, scalers, site_data,
                 aux, gas_pipelines, html>>

\* lines 2710-2740
LoadGrid ==
  /\ mpc = "grid"
  /\ LET t == TryGrid(aux.nodes, aux.edges)
     IN  /\ grid_nodes' = IF t.raised THEN <<>> ELSE t.grid_nodes
         /\ grid_edges' = IF t.raised THEN <<>> ELSE t.grid_edges
  /\ mpc' = "gas"
  /\ UNCHANGED <<xvars, csv, columns, size_by, df, scalers, site_data,
                 aux, gas_pipelines, html>>

\* lines 2747-2797, the body of the try: a feature with a geometry gives a
\* segment, one without gives none, one that lacks a key raises
TryGas(f) ==
  LET read == ReadUntil(f.rows, {"bad"})
      segs == SelectSeq([i \in DOMAIN read |->
                           [kind |-> read[i], feature |-> i]],
                        LAMBDA g : g.kind = "ok")
  IN  [raised |-> Raises(f, {"bad"}),
       gas_pipelines |-> IF f.exists THEN segs ELSE <<>>]

\* lines 2745-2800
LoadGas ==
  /\ mpc = "gas"
  /\ LET t == TryGas(aux.gas)
     IN  gas_pipelines' = IF t.raised THEN <<>> ELSE t.gas_pipelines
  /\ mpc' = "write"
  /\ UNCHANGED <<xvars, csv, columns, size_by, df, scalers, site_data,
                 aux, grid_nodes, grid_edges, html>>

\* mutant of WriteOutput: the file is opened for writing before the columns
\* are looked at
WriteOutput_early ==
  /\ mpc \in {"check", "write"}
  /\ html' = [written |-> TRUE, site_data |-> site_data,
              grid_nodes |-> grid_nodes, grid_edges |-> grid_edges,
              gas_pipelines |-> gas_pipelines]
  /\ mpc' = IF mpc = "write" THEN "written"
            ELSE IF Labelled \subseteq columns THEN "sizing" ELSE "ValueError"
  /\ UNCHANGED <<xvars, csv, columns, size_by, df, scalers, site_data,
                 aux, grid_nodes, grid_edges, gas_pipelines>>

\* lines 2803-2834: build_html and write_text
WriteOutput ==
  /\ mpc = "write"
  /\ html' = [written |-> TRUE, site_data |-> site_data,
              grid_nodes |-> grid_nodes, grid_edges |-> grid_edges,
              gas_pipelines |-> gas_pipelines]
  /\ mpc' = "written"
  /\ UNCHANGED <<xvars, csv, columns, size_by, df, scalers, site_data,
                 aux, grid_nodes, grid_edges, gas_pipelines>>

MainNext ==
  \/ ReadCsv
  \/ CleanNumeric
  \/ CheckColumns
  \/ BuildScalers
  \/ ComposeSites
  \/ LoadGreenhouses
  \/ LoadGrid
  \/ LoadGas
  \/ WriteOutput

MainSpec == MainInit /\ [][MainNext]_vars

\* main on one CSV file, with every set of auxiliary files
AuxInit ==
  /\ NormIdle
  /\ values = <<>>
  /\ scaler = NoScaler
  /\ v = NoArg
  /\ y = NaN
  /\ first = Unrecorded
  /\ r_min = Fin(5, 1) /\ r_max = Fin(16, 1)
  /\ columns = Labelled \cup {CapCol, Co2Col, KtCol}
  /\ size_by = "auto"
  /\ csv \in {<<OtherRow(columns)>>, <<OtherRow(columns), OtherRow(columns)>>}
  /\ df = <<>>
  /\ scalers = <<>>
  /\ site_data = <<>>
  /\ mpc = "read"
  /\ aux \in AuxSets
  /\ grid_nodes = <<>>
  /\ grid_edges = <<>>
  /\ gas_pipelines = <<>>
  /\ html = NoFile
  /\ OppIdle

AuxSpec == AuxInit /\ [][MainNext]_vars

(***************************************************************************)
(* compute_opportunity_points: the points are binned on a grid of cells of *)
(* GRID_SIZE degrees, each grid is divided by its maximum, the opportunity *)
(* of a cell is supply + offtake - competitors, cut at zero and stretched; *)
(* the cells whose value is positive are returned.  A point is a triple    *)
(* <<lat, lon, weight>>.                                                   *)
(***************************************************************************)
GRID_SIZE == Fin(3, 20)

Zero == Fin(0, 1)

\* int(f) and the number of steps of np.arange over a span, f >= 0
Floor(f) == f.n \div f.d
Ceil(f) == -((-f.n) \div f.d)

MinOf(S) == CHOOSE a \in S : \A b \in S : Le(a, b)
MaxOf(S) == CHOOSE a \in S : \A b \in S : Le(b, a)

\* lines 119-139: the padded bounds and the shape of the grids
GridOf(all_points) ==
  LET lats    == {all_points[i][1] : i \in DOMAIN all_points}
      lons    == {all_points[i][2] : i \in DOMAIN all_points}
      min_lat == Sub(MinOf(lats), GRID_SIZE)
      max_lat == Add(MaxOf(lats), GRID_SIZE)
      min_lon == Sub(MinOf(lons), GRID_SIZE)
      max_lon == Add(MaxOf(lons), GRID_SIZE)
  IN  [min_lat |-> min_lat, min_lon |-> min_lon,
       rows |-> Ceil(Div(Sub(Add(max_lat, GRID_SIZE), min_lat), GRID_SIZE)) - 1,
       cols |-> Ceil(Div(Sub(Add(max_lon, GRID_SIZE), min_lon), GRID_SIZE)) - 1]

CellsOf(g) == (0..(g.rows - 1)) \X (0..(g.cols - 1))

\* lines 143-144: the cell of a point
BinOf(p, g) ==
  <<Floor(Div(Sub(p[1], g.min_lat), GRID_SIZE)),
    Floor(Div(Sub(p[2], g.min_lon), GRID_SIZE))>>

\* lines 141-146: bin_points; a point outside of the grid is left out
RECURSIVE WeightIn(_, _, _)
WeightIn(ps, g, c) ==
  IF ps = <<>> THEN Zero
  ELSE Add(IF BinOf(Head(ps), g) = c THEN Head(ps)[3] ELSE Zero,
           WeightIn(Tail(ps), g, c))

bin_points(ps, g) == [c \in CellsOf(g) |-> WeightIn(ps, g, c)]

\* lines 154-158
normalize_grid(grid) ==
  LET max_val == MaxOf({grid[c] : c \in DOMAIN grid})
  IN  IF Lt(Zero, max_val) THEN [c \in DOMAIN grid |-> Div(grid[c], max_val)]
      ELSE grid

\* mutant of Opportunity: the competitors are added
Opportunity_added(s, o, c) ==
  LET x == Add(Add(s, o), c) IN IF Lt(x, Zero) THEN Zero ELSE x

\* lines 165-168: supply + offtake - competitors, negative values cut to 0
Opportunity(s, o, c) ==
  LET x == Sub(Add(s, o), c) IN IF Lt(x, Zero) THEN Zero ELSE x

\* lines 170-203, the contrast chain on a cell of value x in a grid of
\* maximum max_val > 0.  With r = x / max_val the powers and the two
\* divisions by the maximum give r^0.624; a value under 0.05 becomes 0, that
\* is r under CutRatio = 0.05^(1/0.624); the square root, the gain of 1.8
\* and the cap at 1 give min(1, 1.8 r^0.312), which is 1 from
\* FullRatio = 1.8^(-1/0.312) on.  In between the value is irrational: it
\* is written [k |-> "pow", ...], the number 1.8 r^0.312 of (0, 1).
CutRatio  == Fin(8223, 1000000)
FullRatio == Fin(152, 1000)

Contrast(x, max_val) ==
  IF ~Lt(Zero, max_val) THEN x
  ELSE LET r == Div(x, max_val)
       IN  IF Lt(r, CutRatio) THEN Zero
           ELSE IF Le(FullRatio, r) THEN Fin(1, 1)
           ELSE [k |-> "pow", n |-> r.n, d |-> r.d]

\* value > 0
Positive(val) == val.k = "pow" \/ (val.k = "fin" /\ val.n > 0)

\* lines 104-226
compute_opportunity_points(supply_points, offtake_points, competitors_points) ==
  IF supply_points = <<>> /\ offtake_points = <<>> THEN <<>>
  ELSE
    LET all_points == supply_points \o offtake_points \o competitors_points
        g    == GridOf(all_points)
        sn   == normalize_grid(bin_points(supply_points, g))
        on   == normalize_grid(bin_points(offtake_points, g))
        cn   == normalize_grid(bin_points(competitors_points, g))
        opp  == [c \in CellsOf(g) |-> Opportunity(sn[c], on[c], cn[c])]
        mx   == MaxOf({opp[c] : c \in CellsOf(g)})
        grid == [c \in CellsOf(g) |-> Contrast(opp[c], mx)]
        \* the cells row by row
        cell(k) == <<(k - 1) \div g.cols, (k - 1) % g.cols>>
        all  == [k \in 1..(g.rows * g.cols) |->
                   [lat_center |->
                      Add(g.min_lat,
                          Mul(Add(Fin(cell(k)[1], 1), Fin(1, 2)), GRID_SIZE)),
                    lon_center |->
                      Add(g.min_lon,
                          Mul(Add(Fin(cell(k)[2], 1), Fin(1, 2)), GRID_SIZE)),
                    value |-> grid[cell(k)]]]
    IN  SelectSeq(all, LAMBDA e : Positive(e.value))

\* the lists of points: up to MaxPts points each, at a few places; one
\* supply place carries a large weight
MaxPts == 2

Places ==
  << <<Fin(0, 1), Fin(0, 1), Fin(1, 1)>>,
     <<Fin(1, 10), Fin(0, 1), Fin(1, 1)>>,
     <<Fin(3, 10), Fin(1, 5), Fin(1, 1)>> >>

SupplyPlaces == Places \o << <<Fin(3, 10), Fin(0, 1), Fin(200, 1)>> >>

\* the lists over the places, up to the order of their points
ListsOver(places) ==
  UNION { { [i \in 1..m |-> places[f[i]]] :
            f \in {h \in [1..m -> DOMAIN places] :
                     \A i \in 1..(m - 1) : h[i] <= h[i + 1]} } :
          m \in 0..MaxPts }

OppInit ==
  /\ NormIdle
  /\ ScalerIdle
  /\ csv = <<>>
  /\ columns = {}
  /\ size_by = "auto"
  /\ df = <<>>
  /\ scalers = <<>>
  /\ site_data = <<>>
  /\ mpc = "idle"
  /\ aux = NoAux
  /\ grid_nodes = <<>>
  /\ grid_edges = <<>>
  /\ gas_pipelines = <<>>
  /\ html = NoFile
  /\ PageIdle
  /\ points \in [supply : ListsOver(SupplyPlaces), offtake : ListsOver(Places),
                 competitors : ListsOver(Places)]
  /\ opportunity_points = <<>>
  /\ opc = "call"

ComputeOpportunity ==
  /\ opc = "call"
  /\ opportunity_points' =
       compute_opportunity_points(points.supply, points.offtake,
                                  points.competitors)
  /\ opc' = "done"
  /\ UNCHANGED <<nvars, svars, mvars, pvars, points>>

OppNext == ComputeOpportunity

OppSpec == OppInit /\ [][OppNext]_vars

(***************************************************************************)
(* The generated page.  build_html embeds the site records, the visibility *)
(* rule and the two preselect options in the script; the script builds one *)
(* marker for each site (none of them on the map), one checkbox for each   *)
(* techno of a layer that has a container and one for each status.  A      *)
(* marker is the index of its site in SITES.  Each handler of the page is  *)
(* one action; the isochrone fetch is two: the part before the await,      *)
(* inside ToggleIsochrone, and the part after it, FetchCompleted.          *)
(***************************************************************************)
\* the fields of a site record that the script's filters and search read
Marker(techno, layer, category, status, operator) ==
  [techno |-> techno, layer |-> layer, category |-> category,
   status |-> status, operator |-> operator]

\* the layers that have a container, and the categories a sub-section shows
layerContainers == {"Supply", "Offtake", "Competitors"}
subSectionGroups ==
  [Offtake |-> {"Food processing", "E-methanol", "E-SAF", "Storage",
                "Greenhouses"},
   Competitors |-> {"BioCO2", "FossilCO2", "Capture"}]

\* a checkbox: "tech" or "stat", the section it is in, and its value
Box(kind, section, value) ==
  [kind |-> kind, section |-> section, value |-> value]

\* addTechnoRow, for every techno of LAYER_CATEGORY_MAP that has a place
TechBoxes(S) ==
  {Box("tech", S[m].layer, S[m].techno) :
     m \in {n \in DOMAIN S :
              /\ S[n].layer \in layerContainers
              /\ \/ S[n].layer \notin DOMAIN subSectionGroups
                 \/ S[n].category \in subSectionGroups[S[n].layer]}}

\* allStatuses: the statuses of SITES that are not empty
StatBoxes(S) ==
  {Box("stat", "status", S[m].status) :
     m \in {n \in DOMAIN S : S[n].status # ""}}

\* the checkboxes checked when the page has loaded
Preselected(S, preselectTech, preselectStatus) ==
  (IF preselectTech THEN TechBoxes(S) ELSE {})
    \cup (IF preselectStatus THEN StatBoxes(S) ELSE {})

getSelected(prefix, chk) == {b.value : b \in {c \in chk : c.kind = prefix}}

technoOk(s, selectedTechnos) ==
  IF selectedTechnos = {} THEN FALSE ELSE s.techno \in selectedTechnos

\* statusOk as if a site without a status were filtered like any other
statusOk_noblank(s, selectedStatuses) ==
  IF selectedStatuses = {} THEN FALSE ELSE s.status \in selectedStatuses

statusOk(s, selectedStatuses) ==
  IF s.status = "" THEN TRUE
  ELSE IF selectedStatuses = {} THEN FALSE
  ELSE s.status \in selectedStatuses

vis_logic(mode, tOk, sOk) ==
  CASE mode = "both" -> tOk /\ sOk
    [] mode = "techno" -> tOk
    [] mode = "status" -> sOk
    [] mode = "either" -> tOk \/ sOk

\* the function applyFilters as declared: the markers it leaves on the map
originalApplyFilters(S, mode, chk) ==
  {m \in DOMAIN S :
     vis_logic(mode, technoOk(S[m], getSelected("tech", chk)),
               statusOk(S[m], getSelected("stat", chk)))}

\* applyFilters as reassigned at the end of the script: nothing in search mode
applyFilters(S, mode, chk, active, layer) ==
  IF active THEN layer ELSE originalApplyFilters(S, mode, chk)

\* String.prototype.trim, toLowerCase and includes
trim(t) == strip(t)
toLowerCase(t) == lower(t)
includes(t, q) ==
  \E i \in 0..(Len(t) - Len(q)) : SubSeq(t, i + 1, i + Len(q)) = q

\* the isochrone layers drawn for a site: 30 and 60 minutes from the
\* service and 120 minutes extrapolated, or none when the call failed
Drawn(site, ok) == IF ok THEN {<<site, 30>>, <<site, 60>>, <<site, 120>>} ELSE {}

\* t without its k-th element
Without(t, k) == SubSeq(t, 1, k - 1) \o SubSeq(t, k + 1, Len(t))

\* the fetches that may be in flight at once
MaxPending == 1

Biomethane == Marker("Biomethane", "Supply", "Biomethane", "Operating", <<"E", "N">>)
ESaf == Marker("E-SAF", "Offtake", "E-SAF", "Planned", <<"n">>)
Greenhouse == Marker("Greenhouses", "Offtake", "Greenhouses", "", <<>>)
Cement == Marker("Cement", "Other", "Cement", "Operating", <<"E", "N">>)

\* the pages: a site with a status and one without, a checkbox for each;
\* two sites that differ in techno, status and operator; and a page with
\* a site of a layer that has no container
Pages ==
  {<<Biomethane, Greenhouse>>, <<Biomethane, ESaf>>, <<Biomethane, Cement>>}
Modes == {"both", "techno", "status", "either"}
\* what is typed in the search box
Typed == {<<>>, <<" ">>, <<"e">>, <<"N">>, <<"x">>}

PageInit ==
  /\ NormIdle
  /\ ScalerIdle
  /\ csv = <<>>
  /\ columns = {}
  /\ size_by = "auto"
  /\ df = <<>>
  /\ scalers = <<>>
  /\ site_data = <<>>
  /\ mpc = "idle"
  /\ aux = NoAux
  /\ grid_nodes = <<>>
  /\ grid_edges = <<>>
  /\ gas_pipelines = <<>>
  /\ html = NoFile
  /\ points = NoPoints
  /\ opportunity_points = <<>>
  /\ opc = "idle"
  /\ SITES \in Pages
  /\ visibility_mode \in Modes
  /\ \E preselectTech \in BOOLEAN, preselectStatus \in BOOLEAN :
       checked = Preselected(SITES, preselectTech, preselectStatus)
  /\ markersLayer = {}
  /\ visible_count = 0
  /\ searchActive = FALSE
  /\ matchingMarkers = {}
  /\ zoomMode = FALSE
  /\ currentFocusSite = NoSite
  /\ isochroneEnabled = FALSE
  /\ isochroneLayers = {}
  /\ savedFilteredMarkers = {}
  /\ pending = <<>>
  /\ shownBefore = NoHistory

\* the history after a filter or a search action
Disturbed == [shownBefore EXCEPT !.only = FALSE]

\* a techno or status checkbox is clicked: its change listener is the
\* function applyFilters as it was when the listener was added
Change(b) ==
  /\ b \in TechBoxes(SITES) \cup StatBoxes(SITES)
  /\ checked' = IF b \in checked THEN checked \ {b} ELSE checked \cup {b}
  /\ markersLayer' = originalApplyFilters(SITES, visibility_mode, checked')
  /\ visible_count' = Cardinality(markersLayer')
  /\ shownBefore' = Disturbed
  /\ UNCHANGED <<nvars, svars, mvars, ovars, SITES, visibility_mode,
                 searchActive, matchingMarkers, zoomMode, currentFocusSite,
                 isochroneEnabled, isochroneLayers, savedFilteredMarkers,
                 pending>>

\* an all or none button of the statuses or of a layer
QuickSelect(section, val) ==
  /\ LET boxes == {b \in TechBoxes(SITES) \cup StatBoxes(SITES) :
                     b.section = section}
     IN  checked' = IF val THEN checked \cup boxes ELSE checked \ boxes
  /\ markersLayer' = applyFilters(SITES, visibility_mode, checked',
                                  searchActive, markersLayer)
  /\ visible_count' =
       IF searchActive THEN visible_count ELSE Cardinality(markersLayer')
  /\ shownBefore' = Disturbed
  /\ UNCHANGED <<nvars, svars, mvars, ovars, SITES, visibility_mode,
                 searchActive, matchingMarkers, zoomMode, currentFocusSite,
                 isochroneEnabled, isochroneLayers, savedFilteredMarkers,
                 pending>>

\* the search box holds typed and its timer, or the Escape key, fires
PerformSearch(typed) ==
  /\ LET query == toLowerCase(trim(typed))
     IN  IF query = <<>>
         THEN /\ searchActive' = FALSE
              /\ matchingMarkers' = {}
              /\ markersLayer' = applyFilters(SITES, visibility_mode, checked,
                                              FALSE, markersLayer)
         ELSE /\ searchActive' = TRUE
              /\ matchingMarkers' =
                   {m \in DOMAIN SITES :
                      includes(toLowerCase(SITES[m].operator), query)}
              /\ markersLayer' = matchingMarkers'
  /\ visible_count' = Cardinality(markersLayer')
  /\ shownBefore' = Disturbed
  /\ UNCHANGED <<nvars, svars, mvars, ovars, SITES, visibility_mode, checked,
                 zoomMode, currentFocusSite, isochroneEnabled,
                 isochroneLayers, savedFilteredMarkers, pending>>

\* a marker on the map is clicked: enterZoomMode
MarkerClick(m) ==
  /\ m \in markersLayer
  /\ IF zoomMode /\ currentFocusSite = m
     THEN UNCHANGED <<zoomMode, currentFocusSite, savedFilteredMarkers,
                      shownBefore>>
     ELSE /\ zoomMode' = TRUE
          /\ currentFocusSite' = m
          /\ savedFilteredMarkers' = markersLayer
          /\ shownBefore' =
               IF zoomMode THEN shownBefore
               ELSE [shown |-> {}, only |-> ~searchActive]
  /\ UNCHANGED <<nvars, svars, mvars, ovars, SITES, visibility_mode, checked,
                 markersLayer, visible_count, searchActive, matchingMarkers,
                 isochroneEnabled, isochroneLayers, pending>>

\* the isochrone button is clicked: toggleIsochrone, which either runs
\* fetchAndShowIsochrones up to its await or runs hideIsochrones
ToggleIsochrone ==
  /\ zoomMode
  /\ currentFocusSite # NoSite
  /\ isochroneEnabled' = ~isochroneEnabled
  /\ IF ~isochroneEnabled
     THEN /\ Len(pending) < MaxPending
          /\ markersLayer' = DOMAIN SITES
          /\ visible_count' = Cardinality(markersLayer')
          /\ pending' = Append(pending, currentFocusSite)
          /\ shownBefore' = [shownBefore EXCEPT !.shown = markersLayer]
          /\ UNCHANGED isochroneLayers
     ELSE /\ isochroneLayers' = {}
          /\ IF savedFilteredMarkers # {}
             THEN /\ markersLayer' = savedFilteredMarkers
                  /\ visible_count' = Cardinality(markersLayer')
             ELSE UNCHANGED <<markersLayer, visible_count>>
          /\ shownBefore' = [shownBefore EXCEPT !.shown = {}]
          /\ UNCHANGED pending
  /\ UNCHANGED <<nvars, svars, mvars, ovars, SITES, visibility_mode, checked,
                 searchActive, matchingMarkers, zoomMode, currentFocusSite,
                 savedFilteredMarkers>>

\* the k-th fetch in flight returns, with isochrones or without: the rest
\* of fetchAndShowIsochrones runs
FetchCompleted(k, ok) ==
  /\ k \in DOMAIN pending
  /\ isochroneLayers' = Drawn(pending[k], ok)
  /\ pending' = Without(pending, k)
  /\ UNCHANGED <<nvars, svars, mvars, ovars, SITES, visibility_mode, checked,
                 markersLayer, visible_count, searchActive, matchingMarkers,
                 zoomMode, currentFocusSite, isochroneEnabled,
                 savedFilteredMarkers, shownBefore>>

\* the map was zoomed out below level 8 in zoom mode: exitZoomMode
ZoomEnd ==
  /\ zoomMode
  /\ zoomMode' = FALSE
  /\ currentFocusSite' = NoSite
  /\ isochroneEnabled' = FALSE
  /\ isochroneLayers' = IF isochroneEnabled THEN {} ELSE isochroneLayers
  /\ savedFilteredMarkers' = {}
  /\ markersLayer' = applyFilters(SITES, visibility_mode, checked,
                                  searchActive, markersLayer)
  /\ visible_count' =
       IF searchActive THEN visible_count ELSE Cardinality(markersLayer')
  /\ shownBefore' = NoHistory
  /\ UNCHANGED <<nvars, svars, mvars, ovars, SITES, visibility_mode, checked,
                 searchActive, matchingMarkers, pending>>

PageNext ==
  \/ \E b \in TechBoxes(SITES) \cup StatBoxes(SITES) : Change(b)
  \/ \E section \in layerContainers \cup {"status"}, val \in BOOLEAN :
       QuickSelect(section, val)
  \/ \E typed \in Typed : PerformSearch(typed)
  \/ \E m \in DOMAIN SITES : MarkerClick(m)
  \/ ToggleIsochrone
  \/ \E k \in 1..MaxPending, ok \in BOOLEAN : FetchCompleted(k, ok)
  \/ ZoomEnd

PageSpec == PageInit /\ [][PageNext]_vars

(***************************************************************************)
(* Claims about the normalizer, under NormSpec.                            *)
(***************************************************************************)
\* the cells of the column that are text, once to_num_series has returned
Applied == IF npc = "done" THEN {i \in DOMAIN series : ~series[i].na} ELSE {}

NoDigit(t) == \A i \in DOMAIN t : t[i] \notin Digits

\* C1: a cell made of two unsigned numbers a and b joined by a hyphen or by
\* the French range word normalizes to the mean (a + b) / 2.
C1_RangeIsMean ==
  \A i \in Applied :
    \A a \in Lits, b \in Lits, sep \in HyphenSeps \cup AgraveSeps :
      series[i].s = a.s \o sep \o b.s => out[i] = Mean2(a.val, b.val)

\* C2: every NaN-like token, in any letter case and with any whitespace
\* around it, normalizes to missing.
C2_SentinelsAreMissing ==
  \A i \in Applied : series[i].s \in SentinelCells => out[i] = NaN

C2_Witness ==
  /\ npc = "done"
  /\ series = <<Text(<<"tab", "N", "/", "a", "nbsp">>)>>
  /\ out = <<NaN>>

\* C3: to_num_series never raises on a column of text and missing cells;
\* every cell becomes a float or missing, and a cell from which no number
\* can be extracted (a missing cell, or text without a digit) becomes
\* missing.
C3_Total ==
  /\ npc # "raised"
  /\ npc = "done" =>
       /\ DOMAIN out = DOMAIN series
       /\ \A i \in DOMAIN series :
            /\ out[i].k \in {"fin", "inf", "nan"}
            /\ (series[i].na \/ NoDigit(series[i].s)) => out[i] = NaN

C3_Witness ==
  /\ npc = "done"
  /\ series = <<Text(<<"a", "b", "c">>), Text(<<">", "4", "5", "0">>)>>
  /\ out = <<NaN, Fin(450, 1)>>

\* C9: a cell from which exactly one numeric token is extracted normalizes
\* to that token's value with its own sign, hyphen or not: a number with
\* noise around it gives the number, negated when a hyphen is written
\* right before it.
C9_SingleToken ==
  \A i \in Applied :
    /\ \A p \in Prefixes, g \in Signs, a \in Lits, q \in Suffixes :
         series[i].s = p \o g \o a.s \o q =>
           out[i] = IF g = <<"-">> THEN Sub(Fin(0, 1), a.val) ELSE a.val
    /\ LET t    == Normalized(strip(series[i].s))
           nums == findall(t)
       IN  (Len(nums) = 1 /\ lower(strip(series[i].s)) \notin NanTokens) =>
             /\ out[i] = FloatVal(nums[1])
             /\ (out[i].n < 0) <=> (Head(nums[1]) = "-" /\ out[i].n # 0)

C9_Witness ==
  /\ npc = "done"
  /\ series = <<Text(<<"-", "7">>)>>
  /\ out = <<Fin(-7, 1)>>

\* C10: spaces and non-breaking spaces inside a number are removed and the
\* comma is the decimal point: a number written with thousands separators
\* and a decimal comma normalizes to that number.
C10_GroupedNumber ==
  \A i \in Applied :
    \A h \in GroupHeads, g \in GroupSeps, t \in GroupTails, f \in GroupFracs :
      series[i].s = h.s \o g \o t.s \o f.s =>
        out[i] = Add(Fin(1000 * h.val + t.val, 1), f.val)

C10_Witness ==
  /\ npc = "done"
  /\ series = <<Text(<<"1", " ", "2", "3", "4", ",", "5">>)>>
  /\ out = <<Fin(2469, 2)>>

(***************************************************************************)
(* Claims about the scaler, under ScalerSpec.                              *)
(***************************************************************************)
\* the closure has been called: v is its argument and y what it returned
Called == scaler # NoScaler /\ v # NoArg

\* the float the last argument was coerced to (when it could be)
X == ToFloat(v)

C5_MidpointForMissing ==
  (Called /\ v \in Unparsable) => y = Div(Add(r_min, r_max), Fin(2, 1))

C5_Witness ==
  /\ Called
  /\ scaler.kind = "linear"
  /\ r_min = Fin(5, 1) /\ r_max = Fin(16, 1)
  /\ v = Float(NaN)
  /\ y = Fin(21, 2)

MonoProbes ==
  {p \in Probes : IsFin(p)}
    \cup {scaler.v_min, scaler.v_max, Midpoint(scaler.v_min, scaler.v_max)}

C7_Monotone ==
  (/\ Called /\ scaler.kind = "linear" /\ Le(r_min, r_max)
   /\ X.ok /\ IsFin(X.val)
   /\ Le(scaler.v_min, X.val) /\ Le(X.val, scaler.v_max)) =>
    \A p \in MonoProbes :
      /\ (Le(scaler.v_min, p) /\ Lt(p, X.val)) => Le(scale(scaler, Float(p)), y)
      /\ (Lt(X.val, p) /\ Le(p, scaler.v_max)) => Le(y, scale(scaler, Float(p)))

C7_Witness ==
  /\ Called
  /\ scaler.kind = "linear"
  /\ Lt(Quantile(Retained(values), 1, 20), Quantile(Retained(values), 19, 20))
  /\ r_min = Fin(5, 1) /\ r_max = Fin(16, 1)
  /\ X.ok /\ Lt(scaler.v_min, X.val) /\ Lt(X.val, scaler.v_max)
  /\ Lt(r_min, y) /\ Lt(y, r_max)

\* C8: the scaler made from an empty collection returns the midpoint
\* (r_min + r_max) / 2 whatever it is called with: 10.5 for
\* make_scaler([], 5, 16).
C8_EmptyIsConstant ==
  (Called /\ values = <<>>) =>
    /\ y = Div(Add(r_min, r_max), Fin(2, 1))
    /\ (r_min = Fin(5, 1) /\ r_max = Fin(16, 1)) => y = Fin(21, 2)

C8_Witness ==
  /\ Called
  /\ values = <<>>
  /\ r_min = Fin(5, 1) /\ r_max = Fin(16, 1)
  /\ v = Float(Fin(1000, 1))
  /\ y = Fin(21, 2)


\* C11: a cell that holds no digit at all, letters, whitespace and
\* punctuation only, normalizes to missing.
C11_NoDigitIsMissing ==
  \A i \in Applied : NoDigit(series[i].s) => out[i] = NaN

C11_Witness ==
  /\ npc = "done"
  /\ series = <<Text(<<"a", "b", "c">>)>>
  /\ out = <<NaN>>

\* C12: the normalizer gives back its own output: when the value n of a cell
\* is not missing, the plain decimal text of n normalizes to n, for negative
\* n as well.
C12_Idempotent ==
  \A i \in Applied :
    IsFin(out[i]) => parse_one(Text(PlainText(out[i]))) = out[i]

C12_Witness ==
  /\ npc = "done"
  /\ series = <<Text(<<"3", "7", "0", "-", "4", "5", "0">>)>>
  /\ out = <<Fin(-40, 1)>>
  /\ PyStr(out[1]) = <<"-", "4", "0", ".", "0">>
  /\ parse_one(Text(PyStr(out[1]))) = Fin(-40, 1)

\* C15: an en dash, an em dash, a minus sign or the French range word
\* between two numbers a and b gives the value that the cell "a-b" gives.
C15_SeparatorsAgree ==
  \A i \in Applied :
    \A a \in Lits, b \in Lits, sep \in DashSeps \cup AgraveSeps :
      series[i].s = a.s \o sep \o b.s =>
        out[i] = parse_one(Text(a.s \o <<"-">> \o b.s))

C15_Witness ==
  /\ npc = "done"
  /\ series = <<Text(<<"3", "7", "0", "emdash", "4", "5", "0">>)>>
  /\ out = <<Fin(-40, 1)>>

\* C18: when two or more numeric tokens are extracted and the normalized
\* text holds a hyphen anywhere, were it only the sign of a token, the value
\* is the mean of the first two tokens, each with its sign; the tokens after
\* them do not count.
C18_HyphenMeansMean ==
  \A i \in Applied :
    /\ LET t    == Normalized(strip(series[i].s))
           nums == findall(t)
       IN  (Len(nums) >= 2 /\ Contains(t, "-")) =>
             out[i] = Mean2(FloatVal(nums[1]), FloatVal(nums[2]))
    /\ \A a \in SmallLits, b \in SmallLits, c \in SmallLits :
         /\ series[i].s = a.s \o <<"-">> \o b.s \o <<"-">> \o c.s =>
              out[i] = Div(Sub(a.val, b.val), Fin(2, 1))
         /\ series[i].s = <<"-">> \o a.s \o <<"-">> \o b.s =>
              out[i] = Div(Sub(Fin(0, 1), Add(a.val, b.val)), Fin(2, 1))
         /\ series[i].s = a.s \o <<"/">> \o b.s \o <<"-">> \o c.s =>
              out[i] = Div(Add(a.val, b.val), Fin(2, 1))

C18_Witness ==
  /\ npc = "done"
  /\ series = <<Text(<<"-", "1", "2", "-", "3", "4">>)>>
  /\ out = <<Fin(-23, 1)>>

\* C19: when two or more numeric tokens are extracted and the normalized
\* text holds no hyphen, the value is the first token alone.
C19_NoHyphenFirstToken ==
  \A i \in Applied :
    /\ LET t    == Normalized(strip(series[i].s))
           nums == findall(t)
       IN  (Len(nums) >= 2 /\ ~Contains(t, "-")) =>
             out[i] = FloatVal(nums[1])
    /\ \A a \in SmallLits, b \in SmallLits, c \in SmallLits :
         /\ series[i].s = a.s \o <<"/">> \o b.s => out[i] = a.val
         /\ series[i].s = a.s \o <<"+">> \o b.s => out[i] = a.val
         /\ series[i].s = a.s \o <<"/">> \o b.s \o <<"/">> \o c.s =>
              out[i] = a.val
    /\ series[i].s = <<"1", ",", "2", "3", "4", ".", "5">> =>
         out[i] = Fin(617, 500)

C19_Witness ==
  /\ npc = "done"
  /\ series = <<Text(<<"1", ",", "2", "3", "4", ".", "5">>)>>
  /\ out = <<Fin(617, 500)>>


(***************************************************************************)
(* Claims about make_scaler and the closure, continued.                    *)
(***************************************************************************)
\* the entries of the collection that are neither missing nor infinite
Kept(vs) == SelectSeq(vs, LAMBDA a : a # NaN /\ a # PInf /\ a # NInf)

\* C13: the bounds are the 5th and 95th percentiles of the retained values;
\* when these meet or cross, the minimum and maximum; when these are equal
\* too, v_min and v_min + 1.
C13_BoundsCascade ==
  (scaler # NoScaler /\ Kept(values) # <<>>) =>
    LET vals == Kept(values)
        q05  == Quantile(vals, 1, 20)
        q95  == Quantile(vals, 19, 20)
        mn   == SeqMin(vals)
        mx   == SeqMax(vals)
    IN  /\ Lt(q05, q95) => scaler.v_min = q05 /\ scaler.v_max = q95
        /\ (Le(q95, q05) /\ Lt(mn, mx)) =>
             scaler.v_min = mn /\ scaler.v_max = mx
        /\ (Le(q95, q05) /\ Le(mx, mn)) =>
             scaler.v_min = mn /\ scaler.v_max = Add(mn, Fin(1, 1))
        \* two values lo < hi: the percentiles lie a 20th inside of them
        /\ (Len(vals) = 2 /\ Lt(mn, mx)) =>
             /\ scaler.v_min = Div(Add(Mul(Fin(19, 1), mn), mx), Fin(20, 1))
             /\ scaler.v_max = Div(Add(mn, Mul(Fin(19, 1), mx)), Fin(20, 1))
        \* one value repeated between a lower and a higher entry
        /\ (Len(vals) = RunLen + 2 /\ Lt(vals[1], vals[2])
              /\ Lt(vals[2], vals[Len(vals)])) =>
             scaler.v_min = vals[1] /\ scaler.v_max = vals[Len(vals)]
        /\ (\A i \in DOMAIN vals : vals[i] = vals[1]) =>
             scaler.v_min = vals[1] /\ scaler.v_max = Add(vals[1], Fin(1, 1))

C13_Witness ==
  /\ Len(values) = RunLen + 2
  /\ values[1] = Fin(0, 1) /\ values[2] = Fin(1, 1)
  /\ values[Len(values)] = Fin(2, 1)
  /\ scaler.kind = "linear"
  /\ scaler.v_min = Fin(0, 1) /\ scaler.v_max = Fin(2, 1)

\* C14: the missing and the infinite entries of the collection count for
\* nothing: the scaler is the one built from the collection without them,
\* call for call, and a collection of such entries only gives the scaler of
\* the empty collection.
C14_MissingEntriesIgnored ==
  scaler # NoScaler =>
    /\ scaler = make_scaler(Kept(values), r_min, r_max)
    /\ Kept(values) = <<>> => scaler = make_scaler(<<>>, r_min, r_max)
    /\ Called => y = scale(make_scaler(Kept(values), r_min, r_max), v)

C14_Witness ==
  /\ Called
  /\ values = <<NInf, Fin(2, 1)>>
  /\ scaler.v_min = Fin(2, 1) /\ scaler.v_max = Fin(3, 1)
  /\ v = Float(Fin(2, 1))
  /\ y = r_min

C16_Stateless ==
  /\ [](first.m = "set" /\ v = first.v => y = first.y)
  /\ [][scaler # NoScaler => scaler' = scaler]_vars

C16_Witness ==
  /\ first.m = "set"
  /\ first.between
  /\ values = <<Fin(0, 1), Fin(2, 1)>>
  /\ v = Float(Fin(1, 1))
  /\ v = first.v
  /\ y = first.y
  /\ y = Midpoint(r_min, r_max)


(***************************************************************************)
(* Claims about main, under MainSpec.                                      *)
(***************************************************************************)
\* the site records are composed
Composed == mpc \in {"greenhouses", "grid", "gas", "write", "written"}

\* the site records of the rows of the CSV file
CsvSites == SelectSeq(site_data, LAMBDA s : s.category # "Greenhouses")

\* the rows of the file that have coordinates
Located == SelectSeq(csv, LAMBDA r : r.ok)

\* the column a row is sized by
SizingColumn(r) ==
  LET cap == IF CapCol \in columns THEN CapCol ELSE CapFallback
  IN  CASE size_by = "capacity" ->
             IF r.category \in {"E-methanol", "E-SAF"} THEN KtCol ELSE cap
        [] size_by = "co2" -> Co2Col
        [] size_by = "auto" ->
             CASE r.layer = "Supply" -> cap
               [] r.layer = "Offtake" ->
                    IF r.category \in {"E-methanol", "E-SAF"}
                    THEN KtCol ELSE Co2Col
               [] r.layer = "Competitors" -> Co2Col
               [] OTHER -> cap

\* C17: numeric data that cannot be read never aborts the run: every row
\* with coordinates gives one site record, and when the cell the row is sized
\* by cannot be read, or its column is not in the file, the radius of the
\* record is the midpoint (min_radius + max_radius) / 2 and its sizing metric
\* value is missing.
C17_UnreadableIsMidpoint ==
  /\ mpc # "raised"
  /\ Composed =>
       /\ Len(CsvSites) = Len(Located)
       /\ \A i \in DOMAIN Located :
            LET r   == Located[i]
                col == SizingColumn(r)
            IN  (col \notin columns \/ r.cells[col] \in {NA, Text(<<"a", "b", "c">>)})
                  => /\ CsvSites[i].radius = Div(Add(r_min, r_max), Fin(2, 1))
                     /\ CsvSites[i].size_metric_value \in {NaN, PyNone}

C17_Witness ==
  /\ mpc = "written"
  /\ size_by = "capacity"
  /\ r_min = Fin(5, 1) /\ r_max = Fin(16, 1)
  /\ Len(csv) = 2 /\ Len(site_data) = 2
  /\ csv[1].ok
  /\ csv[1].category = "Biomethane"
  /\ CapCol \in columns
  /\ csv[1].cells[CapCol] = Text(<<"a", "b", "c">>)
  /\ site_data[1].radius = Fin(21, 2)
  /\ site_data[1].size_metric_value = NaN
  /\ site_data[2].radius = Fin(5, 1)

ColumnOfLabel(label) ==
  CASE label = "Capacity (GWh/year)" -> "cap"
    [] label = "Capacity (kt/year)"  -> "kt"
    [] OTHER                         -> "co2"

\* C22: in every site record, under each --size-by and for each layer and
\* category, the value reported as size_metric_value is the value of the
\* column whose scaler gave the radius: the radius is what the scaler of the
\* column the label names returns for the reported value.
C22_MetricIsRadiusColumn ==
  Composed =>
    \A i \in DOMAIN CsvSites :
      LET s == CsvSites[i]
          k == ColumnOfLabel(s.size_metric_label)
      IN  /\ s.size_metric_value =
               CASE k = "cap" -> s.capacity_gwh_year
                 [] k = "kt"  -> s.capacity_kt_per_year
                 [] k = "co2" -> s.co2_injection_potential_tpy
          /\ s.radius = Call(scalers[k], s.size_metric_value)

C22_Witness ==
  /\ mpc = "written"
  /\ size_by = "auto"
  /\ Len(site_data) = 2
  /\ site_data[1].layer = "Offtake"
  /\ site_data[1].category = "E-SAF"
  /\ site_data[1].size_metric_label = "Capacity (kt/year)"
  /\ site_data[1].size_metric_value = Fin(7, 1)
  /\ site_data[1].co2_injection_potential_tpy = NaN
  /\ site_data[1].radius = r_max
  /\ r_min # r_max

Fails(f, raising) ==
  ~f.exists \/ \E i \in DOMAIN f.rows : f.rows[i] \in raising

\* C24: loading an auxiliary data set is all or nothing and never stops the
\* run: when the load of a data set fails at some row, no record of it is
\* given to build_html (no greenhouse among the site records; neither grid
\* nodes nor grid edges, even when the nodes were read; no gas segment), and
\* the page is written all the same.
C24_AuxAllOrNothing ==
  /\ mpc # "raised"
  /\ mpc \in {"greenhouses", "grid", "gas", "write"} => ENABLED MainNext
  /\ html.written =>
       /\ (Fails(aux.ghg, {"bad", "badxy"}) \/ aux.ghg.rows = <<>>) =>
            \A i \in DOMAIN html.site_data :
              html.site_data[i].category # "Greenhouses"
       /\ ~(Fails(aux.ghg, {"bad", "badxy"}) \/ aux.ghg.rows = <<>>) =>
            Len(html.site_data) = Len(df) + Len(aux.ghg.rows)
       /\ (Fails(aux.nodes, {"bad"}) \/ Fails(aux.edges, {"bad"})) =>
            html.grid_nodes = <<>> /\ html.grid_edges = <<>>
       /\ ~(Fails(aux.nodes, {"bad"}) \/ Fails(aux.edges, {"bad"})) =>
            /\ Len(html.grid_nodes) = Len(aux.nodes.rows)
            /\ Len(html.grid_edges) = Len(aux.edges.rows)
       /\ Fails(aux.gas, {"bad"}) => html.gas_pipelines = <<>>
       /\ ~Fails(aux.gas, {"bad"}) =>
            Len(html.gas_pipelines) =
              Cardinality({i \in DOMAIN aux.gas.rows : aux.gas.rows[i] = "ok"})

C24_Witness ==
  /\ html.written
  /\ aux.nodes = AuxFile(TRUE, <<"ok", "ok">>)
  /\ aux.edges = AuxFile(TRUE, <<"ok", "bad">>)
  /\ html.grid_nodes = <<>>
  /\ html.grid_edges = <<>>
  /\ aux.gas = Good
  /\ Len(html.gas_pipelines) = 1

(***************************************************************************)
(* Claims about compute_opportunity_points, under OppSpec.                 *)
(***************************************************************************)
\* the points of a list that lie in the cell of centre (lat, lon)
InCell(ps, lat, lon) ==
  {i \in DOMAIN ps :
     /\ Le(Sub(lat, Fin(3, 40)), ps[i][1]) /\ Lt(ps[i][1], Add(lat, Fin(3, 40)))
     /\ Le(Sub(lon, Fin(3, 40)), ps[i][2]) /\ Lt(ps[i][2], Add(lon, Fin(3, 40)))}

RECURSIVE WeightOf(_, _)
WeightOf(ps, S) ==
  IF S = {} THEN 0
  ELSE LET i == CHOOSE j \in S : TRUE
       IN  ps[i][3].n + WeightOf(ps, S \ {i})

\* the heaviest cell of a list, over the cells its points lie in
Heaviest(ps) ==
  LET g == GridOf(points.supply \o points.offtake \o points.competitors)
      w(i) == WeightOf(ps, {j \in DOMAIN ps : BinOf(ps[j], g) = BinOf(ps[i], g)})
  IN  IF ps = <<>> THEN 0
      ELSE w(CHOOSE i \in DOMAIN ps : \A j \in DOMAIN ps : w(j) <= w(i))

\* the density of a list in a cell, as a fraction of its heaviest cell
Density(ps, lat, lon) ==
  IF Heaviest(ps) = 0 THEN Zero
  ELSE Fin(WeightOf(ps, InCell(ps, lat, lon)), Heaviest(ps))

\* C25: compute_opportunity_points returns cells of positive value only: in
\* each cell returned the normalised density of supply plus that of offtake
\* is strictly above that of the competitors; and without any supply or
\* offtake point nothing is returned, whatever the competitors.
C25_PositiveCellsOnly ==
  opc = "done" =>
    /\ \A k \in DOMAIN opportunity_points :
         LET e == opportunity_points[k]
         IN  /\ Positive(e.value)
             /\ Lt(Density(points.competitors, e.lat_center, e.lon_center),
                   Add(Density(points.supply, e.lat_center, e.lon_center),
                       Density(points.offtake, e.lat_center, e.lon_center)))
    /\ (points.supply = <<>> /\ points.offtake = <<>>) =>
         opportunity_points = <<>>

C25_Witness ==
  /\ opc = "done"
  /\ points.supply = <<Places[1], SupplyPlaces[4]>>
  /\ points.offtake = <<>>
  /\ points.competitors = <<Places[3]>>
  /\ opportunity_points =
       << [lat_center |-> Fin(3, 8), lon_center |-> Fin(3, 40),
           value |-> Fin(1, 1)] >>

(***************************************************************************)
(* Claims about the generated page, under PageSpec.                        *)
(***************************************************************************)
\* a checkbox of the kind is checked whose value is the text
BoxChecked(kind, text) == \E b \in checked : b.kind = kind /\ b.value = text

\* the visibility rule of the configured mode, for the marker m
RuleHolds(m) ==
  LET tOk == BoxChecked("tech", SITES[m].techno)
      sOk == SITES[m].status = "" \/ BoxChecked("stat", SITES[m].status)
  IN  \/ visibility_mode = "both" /\ tOk /\ sOk
      \/ visibility_mode = "techno" /\ tOk
      \/ visibility_mode = "status" /\ sOk
      \/ visibility_mode = "either" /\ (tOk \/ sOk)

Selected == {m \in DOMAIN SITES : RuleHolds(m)}

\* a checkbox is clicked or an all or none button is pressed
FilterAction ==
  \/ \E b \in TechBoxes(SITES) \cup StatBoxes(SITES) : Change(b)
  \/ \E section \in layerContainers \cup {"status"}, val \in BOOLEAN :
       QuickSelect(section, val)

\* a step in which applyFilters runs while no search is shown: a filter
\* action, the search box emptied, or the end of zoom mode
FiltersRun ==
  \/ ~searchActive /\ FilterAction
  \/ \E typed \in Typed :
       toLowerCase(trim(typed)) = <<>> /\ PerformSearch(typed)
  \/ ~searchActive /\ ZoomEnd

C27_FiltersFrozenInSearch ==
  [][(searchActive /\ FilterAction) => markersLayer' = markersLayer]_vars

\* C28: isochrone layers are on the map only while the isochrone toggle is
\* on and zoom mode is active, whenever the fetches return.
C28_LayersOnlyWhileEnabled ==
  isochroneLayers # {} => (isochroneEnabled /\ zoomMode)

\* C29: hideIsochrones leaves on the map exactly the markers that were
\* shown when isochrones were turned on, whatever markers were clicked in
\* between (zoom mode entered outside a search, and markers and the
\* isochrone button the only things clicked since).
C29_HideRestoresFiltered ==
  [][(isochroneEnabled /\ shownBefore.only /\ ToggleIsochrone)
       => markersLayer' = shownBefore.shown]_vars

\* C30: whenever no search is shown, the isochrone toggle is off and no
\* isochrone layer is on the map, the markers on the map are the sites the
\* visibility rule selects for the checked boxes, and the counter shows
\* their number; from page load on.
C30_MapFollowsBoxes ==
  (~searchActive /\ ~isochroneEnabled /\ isochroneLayers = {})
    => (markersLayer = Selected /\ visible_count = Cardinality(Selected))

=============================================================================
